---- MODULE Spec2Model ----
(***************************************************************************)
(* State machine of the sqlite-backed COSI state store: the journal        *)
(* (resources + events tables with triggers), the write path (Create,      *)
(* Update, Destroy), the subscription notifier, the watch engine and the   *)
(* compaction controller.                                                  *)
(***************************************************************************)
EXTENDS Integers, Sequences, FiniteSets, TLC

(***************************************************************************)
(* Bounds of the model.                                                    *)
(***************************************************************************)
MaxWrites == 4
MaxTime == 2
MaxClients == 1
MaxKeep == 1
MaxCompactions == 2
MaxWatches == 1
MaxWatchWrites == 3
MaxWriteCalls == 3
MaxVersion == 2
MaxRacers == 2
MaxSubs == 3
MaxCloseWrites == 2

(***************************************************************************)
(* Program constants.                                                      *)
(***************************************************************************)
DeleteBatch == 1000
BookmarkLen == 8
EventCreated == 1
EventUpdated == 2
EventDeleted == 3

(***************************************************************************)
(* Value domains.                                                          *)
(***************************************************************************)
Ptr(ns, typ, id) == [ns |-> ns, typ |-> typ, id |-> id]

PA == Ptr("ns1", "t1", "a")
PB == Ptr("ns1", "t1", "b")
PC == Ptr("ns1", "t2", "a")
PD == Ptr("ns2", "t1", "a")

Ptrs == {PA, PB, PC, PD}

Owners == {"", "o1"}
PhaseRunning == 0
PhaseTearingDown == 1
Phases == {PhaseRunning, PhaseTearingDown}
NoLabels == {}
LabelSets == {NoLabels, {<<"env", "prod">>}}

Clients == 1..MaxClients
Racers == 1..MaxRacers
SubChans == 1..MaxSubs
Chans == 1..MaxWatches

NULL == <<>>
\* the zero time.Time of an unset created / updated, which the clock never shows
ZeroTime == 0

\* resource.Pointer / resource.Kind of a metadata record
PtrOf(md) == Ptr(md.ns, md.typ, md.id)
\* variant: subscriptions keyed by the whole pointer
KeyOf_Pointer(p) == [ns |-> p.ns, typ |-> p.typ, id |-> p.id]
KeyOf(p) == [ns |-> p.ns, typ |-> p.typ]
Keys == {KeyOf(p) : p \in Ptrs}

\* resource.Metadata: the part of a resource the store reads and writes
Metadata(p, ver, owner, phase, fins, labels) ==
    [ns |-> p.ns, typ |-> p.typ, id |-> p.id, ver |-> ver, owner |-> owner,
     phase |-> phase, fins |-> fins, labels |-> labels,
     created |-> ZeroTime, updated |-> ZeroTime]

\* Version.Next of the metadata library (an undefined version has value 0)
VersionNext(v) == v + 1

\* store.Marshaler: an opaque blob holding the whole resource
MarshalResource(md) == <<md>>
UnmarshalResource(blob) == blob[1]

\* labels column: jsonb(json.Marshal(labels)); Create binds SQL NULL for an
\* empty label set, Update binds the JSON text null
MarshalLabelsCreate(md) == [sqlnull |-> md.labels = NoLabels, json |-> md.labels]
MarshalLabelsUpdate(md) == [sqlnull |-> FALSE, json |-> md.labels]
\* finalizers column: jsonb(json.Marshal(finalizers)), SQL NULL when empty
MarshalFinalizers(md) == md.fins

(***************************************************************************)
(* Results of the store's operations.                                      *)
(***************************************************************************)
Result(kind, expected, actual) == [kind |-> kind, expected |-> expected, actual |-> actual]
Ok == Result("ok", 0, 0)
NoResult == Result("none", 0, 0)
ErrAlreadyExists == Result("already-exists", 0, 0)
ErrNotFound == Result("not-found", 0, 0)
ErrVersionConflict(expected, actual) == Result("version-conflict", expected, actual)
ErrOwnerConflict == Result("owner-conflict", 0, 0)
ErrPhaseConflict == Result("phase-conflict", 0, 0)
ErrPendingFinalizers == Result("pending-finalizers", 0, 0)
ErrOwnerSet == Result("owner-already-set", 0, 0)

(***************************************************************************)
(* State.                                                                  *)
(***************************************************************************)
VARIABLES
    resources,      \* resources table: existing identity -> row
    events,         \* events table: rows in ascending event_id order
    now,            \* wall clock, epoch seconds
    cl,             \* per client: the call in flight and its caller-side data
    subs,           \* sub.Manager.subscriptions: key -> list of channels
    wake,           \* per channel: number of buffered wakeups (capacity 1)
    options,        \* StateOptions: CompactKeepEvents, CompactMinAge
    comp,           \* the compaction pass in flight (holder of compactMu)
    journal,        \* history: every committed write, in commit order
    dropped,        \* history: the event rows deleted by the current pass
    watch           \* per watch call: its setup, its streaming thread, its channel

vars == <<resources, events, now, cl, subs, wake, options, comp, journal, dropped, watch>>

Range(f) == {f[i] : i \in DOMAIN f}

\* a map without entries
EmptyMap == [x \in {} |-> x]

(***************************************************************************)
(* Journal: the two tables and the triggers.                               *)
(***************************************************************************)
\* event_id INTEGER PRIMARY KEY is the rowid: the engine assigns one more
\* than the largest rowid in the table (1 when the table is empty)
NextEventID(evs) == IF evs = <<>> THEN 1 ELSE evs[Len(evs)].event_id + 1

\* variant: the greatest event id as an earlier snapshot had it
MaxEventID_Earlier(evs) == IF evs = <<>> THEN 0 ELSE evs[Len(evs)].event_id - 1

\* SELECT coalesce(min(event_id), 0), coalesce(max(event_id), 0) FROM events
MinEventID(evs) == IF evs = <<>> THEN 0 ELSE evs[1].event_id
MaxEventID(evs) == IF evs = <<>> THEN 0 ELSE evs[Len(evs)].event_id

EventRow(eid, p, t, etype, before, after) ==
    [event_id |-> eid, ns |-> p.ns, typ |-> p.typ, id |-> p.id,
     event_timestamp |-> t, event_type |-> etype,
     spec_before |-> before, spec_after |-> after]

trg_resources_after_insert(evs, p, newRow, t) ==
    Append(evs, EventRow(NextEventID(evs), p, t, EventCreated, NULL, newRow.spec))

\* variant: the update trigger records the row as a creation
trg_resources_after_update_AsInsert(evs, p, oldRow, newRow, t) ==
    Append(evs, EventRow(NextEventID(evs), p, t, EventCreated, oldRow.spec, newRow.spec))

trg_resources_after_update(evs, p, oldRow, newRow, t) ==
    Append(evs, EventRow(NextEventID(evs), p, t, EventUpdated, oldRow.spec, newRow.spec))

trg_resources_after_delete(evs, p, oldRow, t) ==
    Append(evs, EventRow(NextEventID(evs), p, t, EventDeleted, oldRow.spec, NULL))

ResourceRow(md, labels, spec) ==
    [version |-> md.ver, created_at |-> md.created, updated_at |-> md.updated,
     labels |-> labels, finalizers |-> MarshalFinalizers(md), phase |-> md.phase,
     owner |-> md.owner, spec |-> spec]

\* a database: the content of both tables
DB(rs, evs) == [resources |-> rs, events |-> evs]

\* INSERT INTO resources ...: fails on the primary key, else fires the trigger
ExecInsert(db, p, row, t) ==
    IF p \in DOMAIN db.resources
    THEN [unique |-> TRUE, changes |-> 0, db |-> db]
    ELSE [unique |-> FALSE, changes |-> 1,
          db |-> DB([q \in DOMAIN db.resources \cup {p} |->
                        IF q = p THEN row ELSE db.resources[q]],
                    trg_resources_after_insert(db.events, p, row, t))]

\* UPDATE resources SET ... WHERE namespace, type, id AND version = versionOld
ExecUpdate(db, p, versionOld, row, t) ==
    IF p \in DOMAIN db.resources /\ db.resources[p].version = versionOld
    THEN [changes |-> 1,
          db |-> DB([db.resources EXCEPT ![p] =
                        [row EXCEPT !.created_at = db.resources[p].created_at]],
                    trg_resources_after_update(db.events, p, db.resources[p],
                        [row EXCEPT !.created_at = db.resources[p].created_at], t))]
    ELSE [changes |-> 0, db |-> db]

\* DELETE FROM resources WHERE namespace, type, id AND version = version
ExecDelete(db, p, version, t) ==
    IF p \in DOMAIN db.resources /\ db.resources[p].version = version
    THEN [changes |-> 1,
          db |-> DB([q \in DOMAIN db.resources \ {p} |-> db.resources[q]],
                    trg_resources_after_delete(db.events, p, db.resources[p], t))]
    ELSE [changes |-> 0, db |-> db]

(***************************************************************************)
(* Write path.  Each operation runs in one write transaction; the engine   *)
(* serialises write transactions, so a transaction is one atomic step.  A  *)
(* transaction yields its error, the committed database (the old one when  *)
(* rolled back) and the copy of the metadata it built.                     *)
(***************************************************************************)
TxResult(err, db, md) == [err |-> err, db |-> db, md |-> md]

\* Metadata.SetOwner: the owner can be set once
SetOwnerFails(md, owner) == md.owner # "" /\ md.owner # owner

\* variant: Create that takes a unique violation for a success
CreateTx_IgnoreUnique(db, res, optOwner, t) ==
    LET p == PtrOf(res)
        resCopy == [res EXCEPT !.owner = optOwner, !.created = t,
                               !.ver = VersionNext(res.ver)]
        row == ResourceRow(resCopy, MarshalLabelsCreate(resCopy), MarshalResource(resCopy))
        ins == ExecInsert(db, p, row, t)
    IN  IF SetOwnerFails(res, optOwner) THEN TxResult(ErrOwnerSet, db, res)
        ELSE TxResult(Ok, ins.db, resCopy)

\* variant: Create works on the caller's resource instead of a deep copy
CreateTx_NoDeepCopy(db, res, optOwner, t) ==
    LET p == PtrOf(res)
        resCopy == [res EXCEPT !.owner = optOwner, !.created = t,
                               !.ver = VersionNext(res.ver)]
        row == ResourceRow(resCopy, MarshalLabelsCreate(resCopy), MarshalResource(resCopy))
        ins == ExecInsert(db, p, row, t)
    IN  IF SetOwnerFails(res, optOwner) THEN TxResult(ErrOwnerSet, db, res)
        ELSE IF ins.unique THEN TxResult(ErrAlreadyExists, db, resCopy)
        ELSE TxResult(Ok, ins.db, resCopy)

CreateTx(db, res, optOwner, t) ==
    LET p == PtrOf(res)
        resCopy == [res EXCEPT !.owner = optOwner, !.created = t,
                               !.ver = VersionNext(res.ver)]
        row == ResourceRow(resCopy, MarshalLabelsCreate(resCopy), MarshalResource(resCopy))
        ins == ExecInsert(db, p, row, t)
    IN  IF SetOwnerFails(res, optOwner) THEN TxResult(ErrOwnerSet, db, res)
        ELSE IF ins.unique THEN TxResult(ErrAlreadyExists, db, res)
        ELSE TxResult(Ok, ins.db, resCopy)

\* variant: Update without the comparison of the supplied version
UpdateTx_NoVersionCheck(db, newResource, optOwner, expectedPhase, t) ==
    LET p == PtrOf(newResource)
        cur == db.resources[p]
        resCopy == [newResource EXCEPT !.updated = t, !.created = cur.created_at,
                                       !.ver = VersionNext(newResource.ver)]
        row == ResourceRow(resCopy, MarshalLabelsUpdate(resCopy), MarshalResource(resCopy))
        upd == ExecUpdate(db, p, cur.version, row, t)
    IN  IF p \notin DOMAIN db.resources THEN TxResult(ErrNotFound, db, newResource)
        ELSE IF cur.owner # optOwner THEN TxResult(ErrOwnerConflict, db, newResource)
        ELSE IF expectedPhase # NULL /\ cur.phase # expectedPhase[1]
            THEN TxResult(ErrPhaseConflict, db, newResource)
        ELSE TxResult(Ok, upd.db, resCopy)

\* variant: Update that stores the supplied version unbumped
UpdateTx_SameVersion(db, newResource, optOwner, expectedPhase, t) ==
    LET p == PtrOf(newResource)
        cur == db.resources[p]
        resCopy == [newResource EXCEPT !.updated = t, !.created = cur.created_at]
        row == ResourceRow(resCopy, MarshalLabelsUpdate(resCopy), MarshalResource(resCopy))
        upd == ExecUpdate(db, p, cur.version, row, t)
    IN  IF p \notin DOMAIN db.resources THEN TxResult(ErrNotFound, db, newResource)
        ELSE IF cur.version # newResource.ver
            THEN TxResult(ErrVersionConflict(newResource.ver, cur.version), db, newResource)
        ELSE IF cur.owner # optOwner THEN TxResult(ErrOwnerConflict, db, newResource)
        ELSE IF expectedPhase # NULL /\ cur.phase # expectedPhase[1]
            THEN TxResult(ErrPhaseConflict, db, newResource)
        ELSE TxResult(Ok, upd.db, resCopy)

\* variant: Update that compares the owner before the version
UpdateTx_OwnerFirst(db, newResource, optOwner, expectedPhase, t) ==
    LET p == PtrOf(newResource)
        cur == db.resources[p]
        resCopy == [newResource EXCEPT !.updated = t, !.created = cur.created_at,
                                       !.ver = VersionNext(newResource.ver)]
        row == ResourceRow(resCopy, MarshalLabelsUpdate(resCopy), MarshalResource(resCopy))
        upd == ExecUpdate(db, p, cur.version, row, t)
    IN  IF p \notin DOMAIN db.resources THEN TxResult(ErrNotFound, db, newResource)
        ELSE IF cur.owner # optOwner THEN TxResult(ErrOwnerConflict, db, newResource)
        ELSE IF cur.version # newResource.ver
            THEN TxResult(ErrVersionConflict(newResource.ver, cur.version), db, newResource)
        ELSE IF expectedPhase # NULL /\ cur.phase # expectedPhase[1]
            THEN TxResult(ErrPhaseConflict, db, newResource)
        ELSE TxResult(Ok, upd.db, resCopy)

UpdateTx(db, newResource, optOwner, expectedPhase, t) ==
    LET p == PtrOf(newResource)
        cur == db.resources[p]
        currentVer == cur.version
        resCopy == [newResource EXCEPT !.updated = t, !.created = cur.created_at,
                                       !.ver = VersionNext(newResource.ver)]
        row == ResourceRow(resCopy, MarshalLabelsUpdate(resCopy), MarshalResource(resCopy))
        upd == ExecUpdate(db, p, currentVer, row, t)
    IN  IF p \notin DOMAIN db.resources THEN TxResult(ErrNotFound, db, newResource)
        ELSE IF currentVer # newResource.ver
            THEN TxResult(ErrVersionConflict(newResource.ver, currentVer), db, newResource)
        ELSE IF cur.owner # optOwner THEN TxResult(ErrOwnerConflict, db, newResource)
        ELSE IF expectedPhase # NULL /\ cur.phase # expectedPhase[1]
            THEN TxResult(ErrPhaseConflict, db, newResource)
        ELSE IF upd.changes # 1
            THEN TxResult(ErrVersionConflict(newResource.ver, currentVer), db, newResource)
        ELSE TxResult(Ok, upd.db, resCopy)

\* variant: Destroy that looks at the finalizers before the owner
DestroyTx_FinalizersFirst(db, p, optOwner, t) ==
    LET md == Metadata(p, 0, "", PhaseRunning, <<>>, NoLabels)
    IN  IF p \notin DOMAIN db.resources THEN TxResult(ErrNotFound, db, md)
        ELSE LET cur == db.resources[p]
                 del == ExecDelete(db, p, cur.version, t)
             IN  IF Len(cur.finalizers) # 0 THEN TxResult(ErrPendingFinalizers, db, md)
                 ELSE IF cur.owner # optOwner THEN TxResult(ErrOwnerConflict, db, md)
                 ELSE TxResult(Ok, del.db, md)

\* variant: Destroy that reports a missing row as a version conflict
DestroyTx_MissingAsConflict(db, p, optOwner, t) ==
    LET md == Metadata(p, 0, "", PhaseRunning, <<>>, NoLabels)
    IN  IF p \notin DOMAIN db.resources THEN TxResult(ErrVersionConflict(0, 0), db, md)
        ELSE LET cur == db.resources[p]
                 del == ExecDelete(db, p, cur.version, t)
             IN  IF cur.owner # optOwner THEN TxResult(ErrOwnerConflict, db, md)
                 ELSE IF Len(cur.finalizers) # 0 THEN TxResult(ErrPendingFinalizers, db, md)
                 ELSE TxResult(Ok, del.db, md)

DestroyTx(db, p, optOwner, t) ==
    LET cur == db.resources[p]
        del == ExecDelete(db, p, cur.version, t)
        md == Metadata(p, 0, "", PhaseRunning, <<>>, NoLabels)
    IN  IF p \notin DOMAIN db.resources THEN TxResult(ErrNotFound, db, md)
        ELSE IF cur.owner # optOwner THEN TxResult(ErrOwnerConflict, db, md)
        ELSE IF Len(cur.finalizers) # 0 THEN TxResult(ErrPendingFinalizers, db, md)
        ELSE IF del.changes # 1
            THEN TxResult(ErrVersionConflict(cur.version, cur.version), db, md)
        ELSE TxResult(Ok, del.db, md)

(***************************************************************************)
(* Subscription notifier (sub.Manager).                                    *)
(***************************************************************************)
\* Manager.Subscribe: append a fresh channel to the key's list
Subscribe(m, key, ch) ==
    [k \in DOMAIN m \cup {key} |->
        IF k = key THEN Append(IF key \in DOMAIN m THEN m[key] ELSE <<>>, ch) ELSE m[k]]

\* variant: an Unsubscribe that leaves the subscription in the list
Unsubscribe_Keep(m, key, ch) == m

\* variant: an Unsubscribe that keeps the entry of an emptied list
Unsubscribe_KeepEntry(m, key, ch) ==
    IF key \in DOMAIN m THEN [m EXCEPT ![key] = SelectSeq(m[key], LAMBDA x : x # ch)] ELSE m

\* subscription.Unsubscribe: filter the channel out, delete an empty entry
Unsubscribe(m, key, ch) ==
    LET list == IF key \in DOMAIN m THEN SelectSeq(m[key], LAMBDA x : x # ch) ELSE <<>>
    IN  IF list = <<>>
        THEN [k \in DOMAIN m \ {key} |-> m[k]]
        ELSE [m EXCEPT ![key] = list]

\* Manager.Empty
Empty(m) == DOMAIN m = {}

\* variant: a Notify that clones the lists of all the keys of a namespace
NotifySnapshot_Namespace(m, key) ==
    LET known == {k \in DOMAIN m : k.ns = key.ns}
        chs == UNION {Range(m[k]) : k \in known}
    IN  IF chs = {} THEN <<>>
        ELSE LET n == CHOOSE x \in chs : \A y \in chs : x >= y
             IN  SelectSeq([i \in 1..n |-> i], LAMBDA i : i \in chs)

\* Manager.Notify, first half: clone the key's channel list under the lock
NotifySnapshot(m, key) == IF key \in DOMAIN m THEN m[key] ELSE <<>>

\* variant: the notify channel queues every wakeup
TrySend_Queued(w, ch) == [w EXCEPT ![ch] = w[ch] + 1]

\* non-blocking send on a channel of capacity 1: dropped when full
TrySend(w, ch) == IF w[ch] = 0 THEN [w EXCEPT ![ch] = 1] ELSE w

\* variant: a Notify that sends to nobody
NotifyFanout_Nobody(w, snap) == w

\* Manager.Notify, second half: non-blocking send on every cloned channel
NotifyFanout(w, snap) == [ch \in DOMAIN w |-> IF ch \in Range(snap) THEN TrySend(w, ch)[ch] ELSE w[ch]]

(***************************************************************************)
(* Client calls.  A call executes its transaction; a failed call returns   *)
(* at once, a committed one goes on to notify and copy the metadata back.  *)
(* Of a client the state keeps the call in flight (req, new, snap), the    *)
(* result of its last call (res) and the metadata the last copy-back wrote *)
(* into the caller's resource (md).  seen is history: the number of writes  *)
(* that had committed when a call that waits for the write lock was made.  *)
(***************************************************************************)
Request(op, md, owner, phase) == [op |-> op, md |-> md, owner |-> owner, phase |-> phase]
NoRequest == Request("none", Metadata(PA, 0, "", PhaseRunning, <<>>, NoLabels), "", NULL)

\* no List call has returned to the client yet
NoList == [kind |-> NULL, opts |-> NULL, items |-> <<>>]

ClientIdle == [pc |-> "idle", req |-> NoRequest, md |-> NoRequest.md, new |-> NoRequest.md,
               res |-> NoResult, snap |-> <<>>, seen |-> 0, list |-> NoList]

JournalEntry(op, p, evs) ==
    [op |-> op, ptr |-> p, event_id |-> IF evs = <<>> THEN 0 ELSE evs[Len(evs)].event_id]

\* the transaction of a call has run with outcome tx
Called(c, req, tx) ==
    /\ cl[c].pc = "idle"
    /\ Len(journal) < MaxWrites
    /\ resources' = tx.db.resources
    /\ events' = tx.db.events
    /\ IF tx.err = Ok
       THEN /\ cl' = [cl EXCEPT ![c] = [pc |-> "notify", req |-> req, md |-> cl[c].md,
                                         new |-> tx.md, res |-> NoResult, snap |-> <<>>,
                                         seen |-> cl[c].seen, list |-> cl[c].list]]
            /\ journal' = Append(journal, JournalEntry(req.op, PtrOf(req.md), tx.db.events))
       ELSE /\ cl' = [cl EXCEPT ![c].res = tx.err]
            /\ UNCHANGED journal

Create(c, res, optOwner) ==
    /\ Called(c, Request("Create", res, optOwner, NULL),
              CreateTx(DB(resources, events), res, optOwner, now))
    /\ UNCHANGED <<now, subs, wake, options, comp, dropped, watch>>

Update(c, newResource, optOwner, expectedPhase) ==
    /\ Called(c, Request("Update", newResource, optOwner, expectedPhase),
              UpdateTx(DB(resources, events), newResource, optOwner, expectedPhase, now))
    /\ UNCHANGED <<now, subs, wake, options, comp, dropped, watch>>

Destroy(c, p, optOwner) ==
    /\ Called(c, Request("Destroy", Metadata(p, 0, "", PhaseRunning, <<>>, NoLabels), optOwner, NULL),
              DestroyTx(DB(resources, events), p, optOwner, now))
    /\ UNCHANGED <<now, subs, wake, options, comp, dropped, watch>>

\* st.sub.Notify, first half: lock, clone the list, unlock
Notify(c) ==
    /\ cl[c].pc = "notify"
    /\ cl' = [cl EXCEPT ![c].pc = "fanout",
                        ![c].snap = NotifySnapshot(subs, KeyOf(PtrOf(cl[c].req.md)))]
    /\ UNCHANGED <<resources, events, now, subs, wake, options, comp, journal, dropped, watch>>

\* st.sub.Notify, second half, then the copy-back and the return
NotifyDone(c) ==
    /\ cl[c].pc = "fanout"
    /\ wake' = NotifyFanout(wake, cl[c].snap)
    /\ cl' = [cl EXCEPT ![c].pc = "idle", ![c].snap = <<>>, ![c].res = Ok,
                        ![c].new = NoRequest.md, ![c].req = NoRequest,
                        ![c].md = IF cl[c].req.op = "Destroy" THEN cl[c].md ELSE cl[c].new]
    /\ UNCHANGED <<resources, events, now, subs, options, comp, journal, dropped, watch>>

\* State.Get: the stored resource, or not-found
Get(db, p) ==
    IF p \in DOMAIN db.resources
    THEN [err |-> Ok, res |-> <<UnmarshalResource(db.resources[p].spec)>>]
    ELSE [err |-> ErrNotFound, res |-> NULL]

\* the transaction of a call: Create's INSERT, or the immediate transaction
\* of Update and of Destroy
Transact(req, db, t) ==
    CASE req.op = "Create" -> CreateTx(db, req.md, req.owner, t)
      [] req.op = "Update" -> UpdateTx(db, req.md, req.owner, req.phase, t)
      [] OTHER -> DestroyTx(db, PtrOf(req.md), req.owner, t)

\* a call is made and waits for the engine's write lock
Call(c, req) ==
    /\ cl[c].pc = "idle"
    /\ cl' = [cl EXCEPT ![c] = [ClientIdle EXCEPT !.pc = "begin", !.req = req,
                                                  !.md = cl[c].md, !.seen = Len(journal)]]
    /\ UNCHANGED <<resources, events, now, subs, wake, options, comp, journal, dropped, watch>>

\* variant: a call notifies whether or not its transaction has committed
Begin_NotifyAlways(c) ==
    /\ cl[c].pc = "begin"
    /\ LET req == cl[c].req
           tx == Transact(req, DB(resources, events), now)
       IN  /\ resources' = tx.db.resources
           /\ events' = tx.db.events
           /\ cl' = [cl EXCEPT ![c].pc = "notify", ![c].new = tx.md]
           /\ IF tx.err = Ok
              THEN journal' = Append(journal, JournalEntry(req.op, PtrOf(req.md), tx.db.events))
              ELSE UNCHANGED journal
    /\ UNCHANGED <<now, subs, wake, options, comp, dropped, watch>>

\* the call gets the write lock and runs its transaction to commit or
\* rollback; a failed call returns, a committed one goes on to notify
Begin(c) ==
    /\ cl[c].pc = "begin"
    /\ LET req == cl[c].req
           tx == Transact(req, DB(resources, events), now)
       IN  /\ resources' = tx.db.resources
           /\ events' = tx.db.events
           /\ IF tx.err = Ok
              THEN /\ cl' = [cl EXCEPT ![c].pc = "notify", ![c].new = tx.md]
                   /\ journal' = Append(journal, JournalEntry(req.op, PtrOf(req.md), tx.db.events))
              ELSE /\ cl' = [cl EXCEPT ![c].pc = "idle", ![c].res = tx.err]
                   /\ UNCHANGED journal
    /\ UNCHANGED <<now, subs, wake, options, comp, dropped, watch>>

\* the wall clock advances
Tick ==
    /\ now < MaxTime
    /\ now' = now + 1
    /\ UNCHANGED <<resources, events, cl, subs, wake, options, comp, journal, dropped, watch>>

(***************************************************************************)
(* Label queries: the in-memory predicate of the metadata library and the  *)
(* predicate the filter compiler pushes into the engine.                   *)
(***************************************************************************)
LabelTerm(key, op, value, invert) == [Key |-> key, Op |-> op, Value |-> value, Invert |-> invert]

LabelGet(labels, key) == {kv[2] : kv \in {x \in labels : x[1] = key}}

\* the order of the label values, as Go compares strings
LabelValueOrder == <<"dev", "prod", "x">>
StringLess(a, b) ==
    \E i, j \in DOMAIN LabelValueOrder :
        i < j /\ LabelValueOrder[i] = a /\ LabelValueOrder[j] = b

\* KV.Matches of the metadata library
TermMatches(term, labels) ==
    LET got == LabelGet(labels, term.Key)
        m == CASE term.Op = "EXISTS" -> got # {}
               [] term.Op = "EQUAL" -> got # {} /\ Len(term.Value) > 0 /\ got = {term.Value[1]}
               [] term.Op = "IN" -> got # {} /\ got \subseteq Range(term.Value)
               [] term.Op = "LT" -> \E v \in got : StringLess(v, term.Value[1])
               [] term.Op = "LTE" -> \E v \in got : v = term.Value[1] \/ StringLess(v, term.Value[1])
               [] OTHER -> FALSE
    IN  IF term.Invert THEN ~m ELSE m

\* LabelQuery.Matches / LabelQueries.Matches: a disjunction of conjunctions
LabelQueryMatches(query, labels) == \A i \in DOMAIN query : TermMatches(query[i], labels)
LabelQueriesMatches(queries, labels) ==
    queries = <<>> \/ \E i \in DOMAIN queries : LabelQueryMatches(queries[i], labels)

\* IDQuery.Matches: no query, or the set of ids the expression accepts
IDQueryMatches(idq, md) == idq = NULL \/ md.id \in idq[1]

\* the selector labels ->> '$."key"': SQL NULL for a NULL column, a JSON
\* null or an object without the key
SqlSelect(col, key) == IF col.sqlnull THEN {} ELSE LabelGet(col.json, key)

\* filter.CompileLabelQueryTerm: "" for a term the engine cannot evaluate
CompileLabelQueryTerm(term) ==
    CASE term.Op = "EXISTS" ->
            [sql |-> IF term.Invert THEN "IS NULL" ELSE "IS NOT NULL", term |-> term]
      [] term.Op \in {"EQUAL", "IN"} /\ Len(term.Value) = 0 ->
            [sql |-> IF term.Invert THEN "true" ELSE "false", term |-> term]
      [] term.Op = "EQUAL" -> [sql |-> IF term.Invert THEN "!=" ELSE "=", term |-> term]
      [] term.Op = "IN" -> [sql |-> IF term.Invert THEN "NOT IN" ELSE "IN", term |-> term]
      [] OTHER -> [sql |-> "", term |-> term]

\* the engine's evaluation of a compiled term in a WHERE clause: a
\* comparison with SQL NULL is not true
SqlTermHolds(c, col) ==
    LET got == SqlSelect(col, c.term.Key)
    IN  CASE c.sql = "IS NULL" -> got = {}
          [] c.sql = "IS NOT NULL" -> got # {}
          [] c.sql = "true" -> TRUE
          [] c.sql = "false" -> FALSE
          [] c.sql = "=" -> got # {} /\ got = {c.term.Value[1]}
          [] c.sql = "!=" -> got # {} /\ got # {c.term.Value[1]}
          [] c.sql = "IN" -> got # {} /\ got \subseteq Range(c.term.Value)
          [] c.sql = "NOT IN" -> got # {} /\ got \cap Range(c.term.Value) = {}
          [] OTHER -> TRUE

\* filter.CompileLabelQuery: the conjunction of the supported terms
CompileLabelQuery(query) ==
    SelectSeq([i \in DOMAIN query |-> CompileLabelQueryTerm(query[i])], LAMBDA c : c.sql # "")

\* filter.CompileLabelQueries: the disjunction of the queries, true when empty
CompileLabelQueries(queries) == [i \in DOMAIN queries |-> CompileLabelQuery(queries[i])]

SqlLabelsHold(compiled, col) ==
    compiled = <<>> \/ \E i \in DOMAIN compiled :
        \A j \in DOMAIN compiled[i] : SqlTermHolds(compiled[i][j], col)

\* WHERE namespace = $namespace AND type = $type AND <compiled> on the row
\* p: the compiled queries are joined by OR with no parentheses around the
\* whole, and AND binds tighter than OR
SqlWhere(scope, compiled, p, col) ==
    LET kind == p.ns = scope.ns /\ p.typ = scope.typ
        holds(i) == \A j \in DOMAIN compiled[i] : SqlTermHolds(compiled[i][j], col)
    IN  IF compiled = <<>> THEN kind
        ELSE (kind /\ holds(1)) \/ \E i \in 2..Len(compiled) : holds(i)

(***************************************************************************)
(* Bookmarks.                                                              *)
(***************************************************************************)
RECURSIVE BigEndian(_, _)
\* binary.BigEndian.AppendUint64: the n low-order bytes of v, high byte first
BigEndian(v, n) == IF n = 0 THEN <<>> ELSE Append(BigEndian(v \div 256, n - 1), v % 256)

\* encodeBookmark: uint64(revision) in 8 big-endian bytes; the floor
\* division and the modulus give the bytes of the two's complement of a
\* negative revision
encodeBookmark(revision) == BigEndian(revision, BookmarkLen)

RECURSIVE BigEndianValue(_)
BigEndianValue(bytes) ==
    IF bytes = <<>> THEN 0
    ELSE BigEndianValue(SubSeq(bytes, 1, Len(bytes) - 1)) * 256 + bytes[Len(bytes)]

\* variant: a decodeBookmark that takes a bookmark of any length
decodeBookmark_AnyLength(bookmark) == [err |-> FALSE, id |-> BigEndianValue(bookmark)]

\* variant: the bytes of a negative number read as its ones' complement
Int64OfBytes_OnesComplement(bytes) ==
    IF bytes # <<>> /\ bytes[1] >= 128
    THEN 0 - BigEndianValue([i \in DOMAIN bytes |-> 255 - bytes[i]])
    ELSE BigEndianValue(bytes)

\* int64(binary.BigEndian.Uint64(b)): a value with the top bit set is the
\* negative number whose two's complement the bytes are
Int64OfBytes(bytes) ==
    IF bytes # <<>> /\ bytes[1] >= 128
    THEN 0 - (BigEndianValue([i \in DOMAIN bytes |-> 255 - bytes[i]]) + 1)
    ELSE BigEndianValue(bytes)

\* decodeBookmark: invalid unless exactly 8 bytes long
decodeBookmark(bookmark) ==
    IF Len(bookmark) # BookmarkLen
    THEN [err |-> TRUE, id |-> 0]
    ELSE [err |-> FALSE, id |-> Int64OfBytes(bookmark)]

(***************************************************************************)
(* Watch engine.  A watch call subscribes, reads its snapshot and starts a *)
(* streaming thread; the thread sends the snapshot, then sleeps on its     *)
(* wakeup channel and drains the event log above the last id it has seen.  *)
(***************************************************************************)
ErrUnsupported == Result("unsupported", 0, 0)
ErrInvalidWatchBookmark == Result("invalid-bookmark", 0, 0)
ErrCanceled == Result("context-canceled", 0, 0)

\* state.WatchOptions / state.WatchKindOptions; StartFromBookmark is NULL
\* (nil) or a one-element sequence holding the bookmark bytes
WatchOptions(tail, bookmark, contents, bbookmark, labelQueries, idQuery) ==
    [TailEvents |-> tail, StartFromBookmark |-> bookmark, BootstrapContents |-> contents,
     BootstrapBookmark |-> bbookmark, LabelQueries |-> labelQueries, IDQuery |-> idQuery]

NoWatchOptions == WatchOptions(0, NULL, FALSE, FALSE, <<>>, NULL)

\* state.Event; Old is NULL or a one-element sequence, a nil bookmark is NULL
Event(type, res, old, bookmark) ==
    [Type |-> type, Resource |-> res, Old |-> old, Bookmark |-> bookmark]

\* resource.NewTombstone(resource.NewMetadata(ns, typ, id, VersionUndefined))
Tombstone(p) == Metadata(p, 0, "", PhaseRunning, <<>>, NoLabels)

ErroredEvent == Event("Errored", Tombstone(Ptr("", "", "")), NULL, NULL)

convertEvent(row) ==
    CASE row.event_type = EventCreated ->
            Event("Created", UnmarshalResource(row.spec_after), NULL, encodeBookmark(row.event_id))
      [] row.event_type = EventUpdated ->
            Event("Updated", UnmarshalResource(row.spec_after),
                  <<UnmarshalResource(row.spec_before)>>, encodeBookmark(row.event_id))
      [] row.event_type = EventDeleted ->
            Event("Destroyed", UnmarshalResource(row.spec_before), NULL, encodeBookmark(row.event_id))
      [] OTHER -> ErroredEvent

WatchNone ==
    [pc |-> "none", kind |-> "", scope |-> Ptr("", "", ""), opts |-> NoWatchOptions,
     eventID |-> 0, start |-> 0, initial |-> 0, queue |-> <<>>, errored |-> FALSE,
     out |-> <<>>, err |-> NoResult, cancelled |-> FALSE, held |-> {}, resumed |-> FALSE,
     prev |-> Ptr("", "", ""), wakeups |-> 0]

IsPoint(w) == w.kind = "Watch"
IsAggregated(w) == w.kind = "WatchKindAggregated"

\* the matches closure of watchKind
matches(w, md) ==
    LabelQueriesMatches(w.opts.LabelQueries, md.labels) /\ IDQueryMatches(w.opts.IDQuery, md)

\* the rows of the resources table in primary key order
IdOrder == <<"a", "b">>
RowOrder == <<PA, PB, PC, PD>>

\* SELECT spec FROM resources WHERE namespace AND type AND <labelQuerySQL>,
\* filtered by matches
BootstrapList(w, rs) ==
    LET compiled == CompileLabelQueries(w.opts.LabelQueries)
        hit(p) == /\ p \in DOMAIN rs
                  /\ SqlWhere(w.scope, compiled, p, rs[p].labels)
                  /\ matches(w, UnmarshalResource(rs[p].spec))
        ps == SelectSeq(RowOrder, hit)
    IN  [i \in DOMAIN ps |-> UnmarshalResource(rs[ps[i]].spec)]

\* State.List: SELECT spec FROM resources WHERE namespace AND type AND
\* <compiled label queries>, each row unmarshalled and filtered by matches
List(rs, kind, opts) ==
    LET compiled == CompileLabelQueries(opts.LabelQueries)
        hit(p) == /\ p \in DOMAIN rs
                  /\ SqlWhere(kind, compiled, p, rs[p].labels)
                  /\ matches([opts |-> opts], UnmarshalResource(rs[p].spec))
        ps == SelectSeq(RowOrder, hit)
    IN  [i \in DOMAIN ps |-> UnmarshalResource(rs[ps[i]].spec)]

\* the messages the thread sends before its loop, one batch per send
InitialBatches(w, list, eventID) ==
    LET created == [i \in DOMAIN list |-> Event("Created", list[i], NULL, NULL)]
        bootstrapped == Event("Bootstrapped", Tombstone(w.scope), NULL, encodeBookmark(eventID))
        noop == Event("Noop", Tombstone(w.scope), NULL, encodeBookmark(eventID))
        contents == IF ~w.opts.BootstrapContents THEN <<>>
                    ELSE IF IsAggregated(w) THEN <<Append(created, bootstrapped)>>
                    ELSE [i \in DOMAIN created |-> <<created[i]>>] \o <<<<bootstrapped>>>>
    IN  contents \o (IF w.opts.BootstrapBookmark THEN <<<<noop>>>> ELSE <<>>)

\* the thread starts: what it sends first, where it sleeps
WatchStarted(w, eventID, batches) ==
    [w EXCEPT !.pc = IF batches = <<>> THEN "wait" ELSE "send",
              !.eventID = eventID, !.start = eventID,
              !.initial = Len(batches), !.queue = batches]

WatchFailed(w, err) == [w EXCEPT !.pc = "failed", !.err = err]

\* the StartFromBookmark branch of both watch kinds
WatchFromBookmark(w, evs) ==
    LET dec == decodeBookmark(w.opts.StartFromBookmark[1])
    IN  IF dec.err THEN WatchFailed(w, ErrInvalidWatchBookmark)
        ELSE IF \A i \in DOMAIN evs : evs[i].event_id # dec.id
            THEN WatchFailed(w, ErrInvalidWatchBookmark)
        ELSE WatchStarted(w, dec.id, <<>>)

\* variant: a Watch that starts its thread without an initial event
WatchSetup_NoInitial(w, db) ==
    IF w.cancelled THEN WatchFailed(w, ErrCanceled)
    ELSE IF w.opts.TailEvents # 0 THEN WatchFailed(w, ErrUnsupported)
    ELSE IF w.opts.StartFromBookmark # NULL THEN WatchFromBookmark(w, db.events)
    ELSE WatchStarted(w, MaxEventID(db.events), <<>>)

\* Watch, from taking the connection to starting the thread
WatchSetup(w, db) ==
    LET p == w.scope
        maxE == MaxEventID(db.events)
        initialEvent ==
            IF p \in DOMAIN db.resources
            THEN Event("Created", UnmarshalResource(db.resources[p].spec), NULL, encodeBookmark(maxE))
            ELSE Event("Destroyed", Tombstone(p), NULL, encodeBookmark(maxE))
    IN  IF w.cancelled THEN WatchFailed(w, ErrCanceled)
        ELSE IF w.opts.TailEvents # 0 THEN WatchFailed(w, ErrUnsupported)
        ELSE IF w.opts.StartFromBookmark # NULL THEN WatchFromBookmark(w, db.events)
        ELSE WatchStarted(w, maxE, <<<<initialEvent>>>>)

\* variant: a watchKind that takes StartFromBookmark with BootstrapContents
watchKindSetup_BookmarkAndContents(w, db) ==
    LET maxE == MaxEventID(db.events)
    IN  IF w.cancelled THEN WatchFailed(w, ErrCanceled)
        ELSE IF w.opts.TailEvents > 0 THEN WatchFailed(w, ErrUnsupported)
        ELSE IF w.opts.StartFromBookmark # NULL
            THEN LET s == WatchFromBookmark(w, db.events)
                 IN  IF s.pc = "failed" THEN s
                     ELSE WatchStarted(s, s.eventID, InitialBatches(w, <<>>, s.eventID))
        ELSE IF w.opts.BootstrapContents
            THEN WatchStarted(w, maxE, InitialBatches(w, BootstrapList(w, db.resources), maxE))
        ELSE WatchStarted(w, maxE, InitialBatches(w, <<>>, maxE))

\* watchKind, from taking the connection to starting the thread
watchKindSetup(w, db) ==
    LET maxE == MaxEventID(db.events)
    IN  IF w.cancelled THEN WatchFailed(w, ErrCanceled)
        ELSE IF w.opts.TailEvents > 0 THEN WatchFailed(w, ErrUnsupported)
        ELSE IF w.opts.StartFromBookmark # NULL /\ w.opts.BootstrapContents
            THEN WatchFailed(w, ErrUnsupported)
        ELSE IF w.opts.StartFromBookmark # NULL
            THEN LET s == WatchFromBookmark(w, db.events)
                 IN  IF s.pc = "failed" THEN s
                     ELSE WatchStarted(s, s.eventID, InitialBatches(w, <<>>, s.eventID))
        ELSE IF w.opts.BootstrapContents
            THEN WatchStarted(w, maxE, InitialBatches(w, BootstrapList(w, db.resources), maxE))
        ELSE WatchStarted(w, maxE, InitialBatches(w, <<>>, maxE))


\* variant: a label filter that passes an update on unchanged whenever
\* either version matches
FilterEvent_NoRewrite(w, ev) ==
    IF ev.Type \in {"Created", "Destroyed"}
    THEN IF matches(w, ev.Resource) THEN <<ev>> ELSE NULL
    ELSE IF matches(w, ev.Old[1]) \/ matches(w, ev.Resource) THEN <<ev>> ELSE NULL

\* the label filter of the streaming loop: NULL to skip the event
FilterEvent(w, ev) ==
    IF ev.Type \in {"Created", "Destroyed"}
    THEN IF matches(w, ev.Resource) THEN <<ev>> ELSE NULL
    ELSE LET oldMatches == matches(w, ev.Old[1])
             newMatches == matches(w, ev.Resource)
         IN  CASE oldMatches /\ ~newMatches -> <<[ev EXCEPT !.Type = "Destroyed", !.Old = NULL]>>
               [] ~oldMatches /\ newMatches -> <<[ev EXCEPT !.Type = "Created", !.Old = NULL]>>
               [] newMatches /\ oldMatches -> <<ev>>
               [] OTHER -> NULL

\* variant: the streaming query of a point watch without its id condition
ScopeRows_AnyId(w, evs) ==
    SelectSeq(evs, LAMBDA e :
        e.event_id > w.eventID /\ e.ns = w.scope.ns /\ e.typ = w.scope.typ)

\* SELECT ... FROM events WHERE event_id > $event_id AND <scope> ORDER BY event_id
ScopeRows(w, evs) ==
    SelectSeq(evs, LAMBDA e :
        /\ e.event_id > w.eventID
        /\ e.ns = w.scope.ns /\ e.typ = w.scope.typ
        /\ (IsPoint(w) => e.id = w.scope.id))

RECURSIVE FetchRows(_, _, _)
\* the row callback of the streaming query, row after row: the last seen id
\* advances before the row is converted, a conversion error ends the query
FetchRows(w, rows, acc) ==
    IF rows = <<>> \/ acc.err THEN acc
    ELSE LET row == Head(rows)
             ev == convertEvent(row)
             seen == [acc EXCEPT !.eventID = row.event_id]
         IN  IF ev.Type = "Errored" THEN [seen EXCEPT !.err = TRUE]
             ELSE FetchRows(w, Tail(rows),
                    [seen EXCEPT !.events =
                        acc.events \o (IF IsPoint(w) THEN <<ev>> ELSE FilterEvent(w, ev))])

\* one send per event, or one send for the whole batch
Batches(w, evs) ==
    IF evs = <<>> THEN <<>>
    ELSE IF IsAggregated(w) THEN <<evs>>
    ELSE [i \in DOMAIN evs |-> <<evs[i]>>]

\* the thread after a fetch: the batches to send and where it goes next
WatchFetched(w, acc) ==
    LET batches == Batches(w, acc.events)
        queue == IF ~acc.err THEN batches
                 ELSE IF IsPoint(w) THEN <<<<ErroredEvent>>>> \o batches
                 ELSE <<<<ErroredEvent>>>>
    IN  [w EXCEPT !.eventID = acc.eventID, !.queue = queue, !.errored = acc.err,
                  !.pc = IF queue = <<>> THEN "wait" ELSE "send"]

\* the thread returns: its deferred Unsubscribe has run
WatchReturned(w) == [w EXCEPT !.pc = "returned", !.queue = <<>>, !.errored = FALSE]

\* channel.SendWithContext of the head of the queue
WatchSent(w) ==
    LET rest == Tail(w.queue)
        next == [w EXCEPT !.queue = rest, !.errored = FALSE,
                          !.pc = IF rest = <<>> THEN "wait" ELSE "send"]
    IN  IF w.cancelled
        THEN IF w.errored /\ IsPoint(w) THEN next ELSE WatchReturned(w)
        ELSE IF w.errored /\ ~IsPoint(w)
            THEN WatchReturned([w EXCEPT !.out = Append(w.out, Head(w.queue))])
        ELSE [next EXCEPT !.out = Append(w.out, Head(w.queue))]

\* every event of every batch a watch has delivered
Delivered(w) == UNION {Range(w.out[i]) : i \in DOMAIN w.out}

\* the bookmarks the consumer of a watch holds
Bookmarks(w) == w.held \cup {ev.Bookmark : ev \in {e \in Delivered(w) : e.Bookmark # NULL}}

\* Watch / WatchKind / WatchKindAggregated is called: the subscription.  A
\* consumer whose watch has ended may watch once more, on a fresh channel;
\* the channel takes the name of the old one once no Notify holds that.
WatchCall(ch, kind, scope, opts) ==
    /\ \/ watch[ch].pc = "none"
       \/ /\ watch[ch].pc \in {"returned", "failed"}
          /\ ~watch[ch].resumed
          /\ \A c \in Clients : ch \notin Range(cl[c].snap)
    /\ watch' = [watch EXCEPT ![ch] =
                    [WatchNone EXCEPT !.pc = "setup", !.kind = kind, !.scope = scope,
                                      !.opts = opts, !.held = Bookmarks(watch[ch]),
                                      !.resumed = watch[ch].pc # "none",
                                      !.prev = watch[ch].scope]]
    /\ subs' = Subscribe(subs, KeyOf(scope), ch)
    /\ wake' = [wake EXCEPT ![ch] = 0]
    /\ UNCHANGED <<resources, events, now, cl, options, comp, journal, dropped>>

\* the rest of the call: the snapshot, and the return
WatchSnapshot(ch) ==
    /\ watch[ch].pc = "setup"
    /\ LET w == watch[ch]
           s == IF IsPoint(w) THEN WatchSetup(w, DB(resources, events))
                ELSE watchKindSetup(w, DB(resources, events))
       IN  /\ watch' = [watch EXCEPT ![ch] = s]
           /\ subs' = IF s.pc = "failed" THEN Unsubscribe(subs, KeyOf(w.scope), ch) ELSE subs
           /\ wake' = IF s.pc # "failed" /\ w.opts.StartFromBookmark # NULL
                      THEN TrySend(wake, ch) ELSE wake
    /\ UNCHANGED <<resources, events, now, cl, options, comp, journal, dropped>>

\* the thread sends the next batch of its queue
WatchSend(ch) ==
    /\ watch[ch].pc = "send"
    /\ LET s == WatchSent(watch[ch])
       IN  /\ watch' = [watch EXCEPT ![ch] = s]
           /\ subs' = IF s.pc = "returned"
                      THEN Unsubscribe(subs, KeyOf(s.scope), ch) ELSE subs
    /\ UNCHANGED <<resources, events, now, cl, wake, options, comp, journal, dropped>>

\* select: case <-sub.NotifyCh()
WatchWake(ch) ==
    /\ watch[ch].pc = "wait"
    /\ wake[ch] > 0
    /\ wake' = [wake EXCEPT ![ch] = 0]
    /\ watch' = [watch EXCEPT ![ch].pc = "query"]
    /\ UNCHANGED <<resources, events, now, cl, subs, options, comp, journal, dropped>>

\* the same step, keeping count of the wakeups the thread has taken
WatchWakeCounted(ch) ==
    /\ watch[ch].pc = "wait"
    /\ wake[ch] > 0
    /\ wake' = [wake EXCEPT ![ch] = 0]
    /\ watch' = [watch EXCEPT ![ch].pc = "query", ![ch].wakeups = watch[ch].wakeups + 1]
    /\ UNCHANGED <<resources, events, now, cl, subs, options, comp, journal, dropped>>

\* select: case <-ctx.Done()
WatchDone(ch) ==
    /\ watch[ch].pc = "wait"
    /\ watch[ch].cancelled
    /\ watch' = [watch EXCEPT ![ch] = WatchReturned(watch[ch])]
    /\ subs' = Unsubscribe(subs, KeyOf(watch[ch].scope), ch)
    /\ UNCHANGED <<resources, events, now, cl, wake, options, comp, journal, dropped>>

\* the streaming query; taking the connection fails on a cancelled context
WatchFetch(ch) ==
    /\ watch[ch].pc = "query"
    /\ LET w == watch[ch]
           acc0 == [eventID |-> w.eventID, events |-> <<>>, err |-> FALSE]
       IN  watch' = [watch EXCEPT ![ch] =
                        IF w.cancelled THEN WatchFetched(w, [acc0 EXCEPT !.err = TRUE])
                        ELSE WatchFetched(w, FetchRows(w, ScopeRows(w, events), acc0))]
    /\ UNCHANGED <<resources, events, now, cl, subs, wake, options, comp, journal, dropped>>

\* the streaming query fails under a live context: before its first row
\* (k = 0: the statement cannot be prepared or stepped), or in the callback
\* of its k-th row, whose blob the marshaler rejects
FetchFailing(w, rows, k) ==
    LET acc0 == [eventID |-> w.eventID, events |-> <<>>, err |-> FALSE]
    IN  IF k = 0 THEN [acc0 EXCEPT !.err = TRUE]
        ELSE [FetchRows(w, SubSeq(rows, 1, k - 1), acc0)
                 EXCEPT !.eventID = rows[k].event_id, !.err = TRUE]

WatchFetchError(ch) ==
    /\ watch[ch].pc = "query"
    /\ ~watch[ch].cancelled
    /\ LET w == watch[ch]
           rows == ScopeRows(w, events)
       IN  \E k \in 0..Len(rows) :
              watch' = [watch EXCEPT ![ch] = WatchFetched(w, FetchFailing(w, rows, k))]
    /\ UNCHANGED <<resources, events, now, cl, subs, wake, options, comp, journal, dropped>>

\* the caller cancels the context of the watch
WatchCancel(ch) ==
    /\ watch[ch].pc \in {"setup", "send", "wait", "query"}
    /\ ~watch[ch].cancelled
    /\ watch' = [watch EXCEPT ![ch].cancelled = TRUE]
    /\ UNCHANGED <<resources, events, now, cl, subs, wake, options, comp, journal, dropped>>

(***************************************************************************)
(* Compaction controller.  A pass holds compactMu from start to end; its   *)
(* queries are separate statements, so writes interleave with them.        *)
(***************************************************************************)
CompactionInfo(compacted, remaining) ==
    [EventsCompacted |-> compacted, RemainingEvents |-> remaining]

CompactIdle ==
    [pc |-> "idle", minEventID |-> 0, maxEventID |-> 0, cutoffEventID |-> 0,
     cutoffTime |-> 0, left |-> 0, right |-> 0, mid |-> 0, eventTimestamp |-> 0,
     info |-> CompactionInfo(0, 0), res |-> "none", passes |-> 0, since |-> 0,
     by |-> "none", runner |-> "none", tick |-> FALSE,
     cancelled |-> FALSE, shutdown |-> FALSE, close |-> "none"]

\* SELECT max(event_id), event_timestamp FROM events WHERE event_id < mid:
\* the timestamp of the closest older row, 0 when there is none
ProbeTimestamp(evs, mid) ==
    LET older == {i \in DOMAIN evs : evs[i].event_id < mid}
    IN  IF older = {} THEN 0
        ELSE evs[CHOOSE i \in older : \A j \in older : j <= i].event_timestamp

\* return &info, nil / return nil, err: the pass ends and releases compactMu
CompactReturn(c, res) == [c EXCEPT !.pc = "idle", !.res = res, !.passes = c.passes + 1]

\* after the binary search: give up when the last probed row is newer than
\* the age cutoff, else delete below left
CompactAfterSearch(c) ==
    IF c.eventTimestamp > c.cutoffTime
    THEN CompactReturn(c, "ok")
    ELSE [c EXCEPT !.pc = "delete", !.cutoffEventID = c.left]

\* head of the binary search loop: for left < right, mid, break on minEventID
CompactSearch(c) ==
    LET mid == (c.left + c.right) \div 2
    IN  IF c.left < c.right /\ mid # c.minEventID
        THEN [c EXCEPT !.pc = "search", !.mid = mid]
        ELSE CompactAfterSearch(c)

\* variant: a row exactly as old as the minimum age counts as older
CompactNarrow_AtCutoffOlder(c, ts) ==
    IF ts <= c.cutoffTime
    THEN [c EXCEPT !.eventTimestamp = ts, !.left = c.mid + 1]
    ELSE [c EXCEPT !.eventTimestamp = ts, !.right = c.mid]

\* the binary search step on the probed timestamp
CompactNarrow(c, ts) ==
    IF ts < c.cutoffTime
    THEN [c EXCEPT !.eventTimestamp = ts, !.left = c.mid + 1]
    ELSE [c EXCEPT !.eventTimestamp = ts, !.right = c.mid]

\* variant: the count cutoff one event too high
CompactStart_KeepLess(c, evs, opts, t) ==
    LET minE == MinEventID(evs)
        maxE == MaxEventID(evs)
        remaining == maxE - minE + 1
        c0 == [c EXCEPT !.minEventID = minE, !.maxEventID = maxE, !.res = "none",
                        !.cutoffEventID = 0, !.cutoffTime = 0, !.left = 0, !.right = 0,
                        !.mid = 0, !.eventTimestamp = 0, !.info = CompactionInfo(0, 0)]
        c1 == [c0 EXCEPT !.info = CompactionInfo(0, remaining)]
    IN  IF minE = 0 /\ maxE = 0 THEN CompactReturn(c0, "ok")
        ELSE IF remaining <= opts.CompactKeepEvents THEN CompactReturn(c1, "ok")
        ELSE CompactSearch([c1 EXCEPT
                !.cutoffEventID = maxE - opts.CompactKeepEvents + 2,
                !.cutoffTime = t - opts.CompactMinAge,
                !.left = minE,
                !.right = maxE - opts.CompactKeepEvents + 2])

\* Compact up to the binary search: the id range and the cutoffs
CompactStart(c, evs, opts, t) ==
    LET minE == MinEventID(evs)
        maxE == MaxEventID(evs)
        remaining == maxE - minE + 1
        c0 == [c EXCEPT !.minEventID = minE, !.maxEventID = maxE, !.res = "none",
                        !.cutoffEventID = 0, !.cutoffTime = 0, !.left = 0, !.right = 0,
                        !.mid = 0, !.eventTimestamp = 0, !.info = CompactionInfo(0, 0)]
        c1 == [c0 EXCEPT !.info = CompactionInfo(0, remaining)]
    IN  IF minE = 0 /\ maxE = 0 THEN CompactReturn(c0, "ok")
        ELSE IF remaining <= opts.CompactKeepEvents THEN CompactReturn(c1, "ok")
        ELSE CompactSearch([c1 EXCEPT
                !.cutoffEventID = maxE - opts.CompactKeepEvents + 1,
                !.cutoffTime = t - opts.CompactMinAge,
                !.left = minE,
                !.right = maxE - opts.CompactKeepEvents + 1])

\* variant: a DELETE whose condition is event_id <= $cutoff
DeleteBatches_AtCutoff(evs, cutoff) ==
    LET below == {i \in DOMAIN evs : evs[i].event_id <= cutoff}
    IN  IF Cardinality(below) <= DeleteBatch THEN {below}
        ELSE {b \in SUBSET below : Cardinality(b) = DeleteBatch}

\* the sets of rows one DELETE ... WHERE event_id IN (SELECT ... LIMIT 1000)
\* statement may remove
DeleteBatches(evs, cutoff) ==
    LET below == {i \in DOMAIN evs : evs[i].event_id < cutoff}
    IN  IF Cardinality(below) <= DeleteBatch THEN {below}
        ELSE {b \in SUBSET below : Cardinality(b) = DeleteBatch}

RECURSIVE RemoveRows(_, _)
RemoveRows(evs, batch) ==
    IF evs = <<>> THEN <<>>
    ELSE LET rest == RemoveRows(Tail(evs), {i - 1 : i \in batch \ {1}})
         IN  IF 1 \in batch THEN rest ELSE <<Head(evs)>> \o rest

Compact ==
    /\ comp.pc = "idle"
    /\ comp.passes < MaxCompactions
    /\ comp' = [CompactStart(comp, events, options, now) EXCEPT !.since = Len(journal)]
    /\ dropped' = {}
    /\ UNCHANGED <<resources, events, now, cl, subs, wake, options, journal, watch>>

CompactProbe ==
    /\ comp.pc = "search"
    /\ LET ts == ProbeTimestamp(events, comp.mid)
       IN  comp' = IF ts = 0
                   THEN CompactReturn([comp EXCEPT !.eventTimestamp = 0], "error")
                   ELSE CompactSearch(CompactNarrow(comp, ts))
    /\ UNCHANGED <<resources, events, now, cl, subs, wake, options, journal, dropped, watch>>

CompactDelete ==
    /\ comp.pc = "delete"
    /\ \E batch \in DeleteBatches(events, comp.cutoffEventID) :
         LET rowsAffected == Cardinality(batch)
             c == [comp EXCEPT !.info = CompactionInfo(
                        comp.info.EventsCompacted + rowsAffected,
                        comp.info.RemainingEvents - rowsAffected)]
         IN  /\ events' = RemoveRows(events, batch)
             /\ dropped' = dropped \cup {events[i] : i \in batch}
             /\ comp' = IF rowsAffected = 0 THEN CompactReturn(c, "ok") ELSE c
    /\ UNCHANGED <<resources, now, cl, subs, wake, options, journal, watch>>

(***************************************************************************)
(* The store with its writers, the clock and the compaction controller.    *)
(***************************************************************************)
KeepChoices == 0..MaxKeep
MinAgeChoices == {-1, 0, 1}

InitJournal ==
    /\ resources = EmptyMap
    /\ events = <<>>
    /\ now = 1
    /\ cl = [c \in Clients |-> ClientIdle]
    /\ subs = EmptyMap
    /\ wake = [ch \in Chans |-> 0]
    /\ comp = CompactIdle
    /\ journal = <<>>
    /\ dropped = {}
    /\ watch = [ch \in Chans |-> WatchNone]

Init ==
    /\ InitJournal
    /\ options \in [CompactKeepEvents : KeepChoices, CompactMinAge : MinAgeChoices]

PlainResource(p, ver) == Metadata(p, ver, "", PhaseRunning, <<>>, NoLabels)

JournalPtrs == {PA, PC}

\* the writer of this specification issues the calls that succeed
Next ==
    \/ \E c \in Clients, p \in JournalPtrs :
         p \notin DOMAIN resources /\ Create(c, PlainResource(p, 0), "")
    \/ \E c \in Clients, p \in JournalPtrs :
         /\ p \in DOMAIN resources
         /\ Update(c, PlainResource(p, resources[p].version), "", NULL)
    \/ \E c \in Clients, p \in JournalPtrs :
         p \in DOMAIN resources /\ Destroy(c, p, "")
    \/ \E c \in Clients : Notify(c)
    \/ \E c \in Clients : NotifyDone(c)
    \/ Tick
    \/ Compact
    \/ CompactProbe
    \/ CompactDelete

Spec == Init /\ [][Next]_vars

\* a pass is straight-line code in the goroutine of its caller: each of its
\* statements is executed once the one before has returned
FairCompact == WF_vars(CompactProbe) /\ WF_vars(CompactDelete)

LiveCompact == Init /\ [][Next]_vars /\ FairCompact

(***************************************************************************)
(* The write path under every kind of call, with a subscriber of the kind. *)
(***************************************************************************)
\* DefaultStateOptions
DefaultOptions == [CompactKeepEvents |-> 1000, CompactMinAge |-> 3600]

InitWatch ==
    /\ InitJournal
    /\ options = DefaultOptions

K1 == Ptr("ns1", "t1", "")

WritePtrs == {PA, PB}
VersionChoices == 0..MaxVersion
\* a running resource, and one being torn down that a finalizer holds
Shapes == {[phase |-> PhaseRunning, fins |-> <<>>], [phase |-> PhaseTearingDown, fins |-> <<"A">>]}
WriteResources ==
    {Metadata(p, ver, owner, sh.phase, sh.fins, NoLabels) :
        p \in WritePtrs, ver \in VersionChoices, owner \in Owners, sh \in Shapes}
PhaseChoices == {NULL} \cup {<<ph>> : ph \in Phases}

NextWrite ==
    \/ \E c \in Clients, res \in WriteResources, optOwner \in Owners :
         Len(journal) < MaxWriteCalls /\ Create(c, res, optOwner)
    \/ \E c \in Clients, newResource \in WriteResources, expectedPhase \in PhaseChoices :
         /\ Len(journal) < MaxWriteCalls
         /\ Update(c, newResource, newResource.owner, expectedPhase)
    \/ \E c \in Clients, p \in WritePtrs, optOwner \in Owners :
         Len(journal) < MaxWriteCalls /\ Destroy(c, p, optOwner)
    \/ \E c \in Clients : Notify(c)
    \/ \E c \in Clients : NotifyDone(c)
    \/ \E ch \in Chans :
         watch[ch].pc = "none" /\ WatchCall(ch, "WatchKind", K1, NoWatchOptions)
    \/ \E ch \in Chans : WatchSnapshot(ch)

SpecWrite == InitWatch /\ [][NextWrite]_vars

(***************************************************************************)
(* Concurrent callers: calls of several clients wait for the write lock    *)
(* together and run their transactions in any order.                       *)
(***************************************************************************)
InitRace ==
    /\ resources = EmptyMap
    /\ events = <<>>
    /\ now = 1
    /\ cl = [c \in Racers |-> ClientIdle]
    /\ subs = EmptyMap
    /\ wake = [ch \in Chans |-> 0]
    /\ options = DefaultOptions
    /\ comp = CompactIdle
    /\ journal = <<>>
    /\ dropped = {}
    /\ watch = [ch \in Chans |-> WatchNone]

RacePtrs == {PA, PB}

RaceRequests ==
    {Request("Create", PlainResource(p, 0), "", NULL) : p \in RacePtrs}
    \cup {Request("Update", PlainResource(p, ver), "", NULL) : p \in RacePtrs, ver \in VersionChoices}
    \cup {Request("Destroy", PlainResource(p, 0), "", NULL) : p \in RacePtrs}

NextRace ==
    \/ \E c \in Racers, req \in RaceRequests :
         Len(journal) < MaxWriteCalls /\ Call(c, req)
    \/ \E c \in Racers : Begin(c)
    \/ \E c \in Racers : Notify(c)
    \/ \E c \in Racers : NotifyDone(c)

SpecRace == InitRace /\ [][NextRace]_vars

(***************************************************************************)
(* The life of one resource under a point watch: the resource is created,  *)
(* torn down, given a finalizer, relieved of it and destroyed, one call    *)
(* after the other, while a Watch of its pointer starts at any moment.     *)
(* Teardown, AddFinalizer and RemoveFinalizer are the wrappers of the      *)
(* state package; each of them ends in one Update of the core state.       *)
(***************************************************************************)
LifeScript ==
    <<Request("Create", PlainResource(PA, 0), "", NULL),
      Request("Update", Metadata(PA, 1, "", PhaseTearingDown, <<>>, NoLabels), "", NULL),
      Request("Update", Metadata(PA, 2, "", PhaseTearingDown, <<"A">>, NoLabels), "", NULL),
      Request("Update", Metadata(PA, 3, "", PhaseTearingDown, <<>>, NoLabels), "", NULL),
      Request("Destroy", Tombstone(PA), "", NULL)>>

NextLife ==
    \/ \E c \in Clients :
         /\ Len(journal) < Len(LifeScript)
         /\ \A d \in Clients : cl[d].pc = "idle"
         /\ Call(c, LifeScript[Len(journal) + 1])
    \/ \E c \in Clients : Begin(c)
    \/ \E c \in Clients : Notify(c)
    \/ \E c \in Clients : NotifyDone(c)
    \/ \E ch \in Chans : watch[ch].pc = "none" /\ WatchCall(ch, "Watch", PA, NoWatchOptions)
    \/ \E ch \in Chans : WatchSnapshot(ch)
    \/ \E ch \in Chans : WatchSend(ch)
    \/ \E ch \in Chans : WatchWake(ch)
    \/ \E ch \in Chans : WatchFetch(ch)

SpecLife == InitWatch /\ [][NextLife]_vars

(***************************************************************************)
(* The store with a writer and its watches, compaction off.                *)
(***************************************************************************)

WatchPtrs == {PA, PB, PC}

WatchCallOf(kind, scope, opts) == [kind |-> kind, scope |-> scope, opts |-> opts]

FreshWatchCalls ==
    {WatchCallOf("Watch", PA, NoWatchOptions),
     WatchCallOf("Watch", PA, [NoWatchOptions EXCEPT !.TailEvents = 1]),
     WatchCallOf("WatchKind", K1, NoWatchOptions),
     WatchCallOf("WatchKind", K1, [NoWatchOptions EXCEPT !.BootstrapContents = TRUE]),
     WatchCallOf("WatchKind", K1, [NoWatchOptions EXCEPT !.TailEvents = 1]),
     WatchCallOf("WatchKindAggregated", K1,
                 [NoWatchOptions EXCEPT !.BootstrapContents = TRUE, !.BootstrapBookmark = TRUE])}

ResumedWatchCalls(ch) ==
    UNION {{WatchCallOf("Watch", PA, [NoWatchOptions EXCEPT !.StartFromBookmark = <<b>>]),
            WatchCallOf("WatchKind", K1, [NoWatchOptions EXCEPT !.StartFromBookmark = <<b>>]),
            WatchCallOf("WatchKindAggregated", K1,
                        [NoWatchOptions EXCEPT !.StartFromBookmark = <<b>>,
                                               !.BootstrapBookmark = TRUE]),
            WatchCallOf("WatchKind", K1,
                        [NoWatchOptions EXCEPT !.StartFromBookmark = <<b>>,
                                               !.BootstrapContents = TRUE])}
           : b \in Bookmarks(watch[ch]) \cup {<<1>>}}

NextWatch ==
    \/ \E c \in Clients, p \in WatchPtrs :
         /\ Len(journal) < MaxWatchWrites
         /\ p \notin DOMAIN resources
         /\ Create(c, PlainResource(p, 0), "")
    \/ \E c \in Clients, p \in WatchPtrs :
         /\ Len(journal) < MaxWatchWrites
         /\ p \in DOMAIN resources
         /\ Update(c, PlainResource(p, resources[p].version), "", NULL)
    \/ \E c \in Clients, p \in WatchPtrs :
         /\ Len(journal) < MaxWatchWrites
         /\ p \in DOMAIN resources
         /\ Destroy(c, p, "")
    \/ \E c \in Clients : Notify(c)
    \/ \E c \in Clients : NotifyDone(c)
    \/ \E ch \in Chans : \E call \in FreshWatchCalls \cup ResumedWatchCalls(ch) :
         WatchCall(ch, call.kind, call.scope, call.opts)
    \/ \E ch \in Chans : WatchSnapshot(ch)
    \/ \E ch \in Chans : WatchSend(ch)
    \/ \E ch \in Chans : WatchWake(ch)
    \/ \E ch \in Chans : WatchDone(ch)
    \/ \E ch \in Chans : WatchFetch(ch)
    \/ \E ch \in Chans : WatchCancel(ch)

SpecWatch == InitWatch /\ [][NextWatch]_vars

\* a call that has committed goes on to notify and return; a started setup
\* or thread goes on running, and its consumer goes on receiving
FairWatch ==
    /\ \A c \in Clients : WF_vars(Notify(c)) /\ WF_vars(NotifyDone(c))
    /\ \A ch \in Chans :
         /\ WF_vars(WatchSnapshot(ch))
         /\ WF_vars(WatchSend(ch))
         /\ WF_vars(WatchWake(ch))
         /\ WF_vars(WatchFetch(ch))
         /\ WF_vars(WatchDone(ch))

LiveWatchCalls ==
    {WatchCallOf("Watch", PA, NoWatchOptions),
     WatchCallOf("WatchKind", K1, NoWatchOptions),
     WatchCallOf("WatchKindAggregated", K1, NoWatchOptions),
     WatchCallOf("WatchKind", K1,
                 [NoWatchOptions EXCEPT !.StartFromBookmark = <<encodeBookmark(1)>>])}

\* the writer and one watch per consumer
NextLive ==
    \/ \E c \in Clients, p \in JournalPtrs :
         /\ Len(journal) < MaxWatchWrites
         /\ p \notin DOMAIN resources
         /\ Create(c, PlainResource(p, 0), "")
    \/ \E c \in Clients, p \in JournalPtrs :
         /\ Len(journal) < MaxWatchWrites
         /\ p \in DOMAIN resources
         /\ Update(c, PlainResource(p, resources[p].version), "", NULL)
    \/ \E c \in Clients, p \in JournalPtrs :
         /\ Len(journal) < MaxWatchWrites
         /\ p \in DOMAIN resources
         /\ Destroy(c, p, "")
    \/ \E c \in Clients : Notify(c)
    \/ \E c \in Clients : NotifyDone(c)
    \/ \E ch \in Chans : \E call \in LiveWatchCalls :
         watch[ch].pc = "none" /\ WatchCall(ch, call.kind, call.scope, call.opts)
    \/ \E ch \in Chans : WatchSnapshot(ch)
    \/ \E ch \in Chans : WatchSend(ch)
    \/ \E ch \in Chans : WatchWake(ch)
    \/ \E ch \in Chans : WatchDone(ch)
    \/ \E ch \in Chans : WatchFetch(ch)
    \/ \E ch \in Chans : WatchCancel(ch)

LiveWatch == InitWatch /\ [][NextLive]_vars /\ FairWatch

(***************************************************************************)
(* The store with a writer of labelled resources and a kind watch with a   *)
(* label or id predicate, compaction off.                                  *)
(***************************************************************************)
MatchPtrs == {PA, PB}

LabelledResource(p, ver, labels) == Metadata(p, ver, "", PhaseRunning, <<>>, labels)

EnvIsProd == <<<<LabelTerm("env", "EQUAL", <<"prod">>, FALSE)>>>>
EnvIsNotProd == <<<<LabelTerm("env", "EQUAL", <<"prod">>, TRUE)>>>>

\* label queries and id queries of the watch calls
MatchPredicates ==
    {[LabelQueries |-> EnvIsProd, IDQuery |-> NULL],
     [LabelQueries |-> EnvIsNotProd, IDQuery |-> NULL],
     [LabelQueries |-> <<>>, IDQuery |-> <<{"a"}>>]}

MatchWatchCalls ==
    {WatchCallOf(kind, K1, [NoWatchOptions EXCEPT !.BootstrapContents = contents,
                                                  !.LabelQueries = pr.LabelQueries,
                                                  !.IDQuery = pr.IDQuery]) :
        kind \in {"WatchKind", "WatchKindAggregated"}, contents \in BOOLEAN,
        pr \in MatchPredicates}

NextMatch ==
    \/ \E c \in Clients, p \in MatchPtrs, labels \in LabelSets :
         /\ Len(journal) < MaxWatchWrites
         /\ p \notin DOMAIN resources
         /\ Create(c, LabelledResource(p, 0, labels), "")
    \/ \E c \in Clients, p \in MatchPtrs, labels \in LabelSets :
         /\ Len(journal) < MaxWatchWrites
         /\ p \in DOMAIN resources
         /\ Update(c, LabelledResource(p, resources[p].version, labels), "", NULL)
    \/ \E c \in Clients, p \in MatchPtrs :
         /\ Len(journal) < MaxWatchWrites
         /\ p \in DOMAIN resources
         /\ Destroy(c, p, "")
    \/ \E c \in Clients : Notify(c)
    \/ \E c \in Clients : NotifyDone(c)
    \/ \E ch \in Chans : \E call \in MatchWatchCalls :
         watch[ch].pc = "none" /\ WatchCall(ch, call.kind, call.scope, call.opts)
    \/ \E ch \in Chans : WatchSnapshot(ch)
    \/ \E ch \in Chans : WatchSend(ch)
    \/ \E ch \in Chans : WatchWake(ch)
    \/ \E ch \in Chans : WatchFetch(ch)

SpecMatch == InitWatch /\ [][NextMatch]_vars

(***************************************************************************)
(* The store with a writer and a watch whose streaming query may fail.     *)
(***************************************************************************)
FaultWatchCalls ==
    {WatchCallOf("Watch", PA, NoWatchOptions),
     WatchCallOf("WatchKind", K1, NoWatchOptions),
     WatchCallOf("WatchKindAggregated", K1, NoWatchOptions)}

NextFault ==
    \/ \E c \in Clients, p \in WritePtrs :
         /\ Len(journal) < MaxWatchWrites
         /\ p \notin DOMAIN resources
         /\ Create(c, PlainResource(p, 0), "")
    \/ \E c \in Clients, p \in WritePtrs :
         /\ Len(journal) < MaxWatchWrites
         /\ p \in DOMAIN resources
         /\ Update(c, PlainResource(p, resources[p].version), "", NULL)
    \/ \E c \in Clients, p \in WritePtrs :
         /\ Len(journal) < MaxWatchWrites
         /\ p \in DOMAIN resources
         /\ Destroy(c, p, "")
    \/ \E c \in Clients : Notify(c)
    \/ \E c \in Clients : NotifyDone(c)
    \/ \E ch \in Chans : \E call \in FaultWatchCalls :
         watch[ch].pc = "none" /\ WatchCall(ch, call.kind, call.scope, call.opts)
    \/ \E ch \in Chans : WatchSnapshot(ch)
    \/ \E ch \in Chans : WatchSend(ch)
    \/ \E ch \in Chans : WatchWake(ch)
    \/ \E ch \in Chans : WatchFetch(ch)
    \/ \E ch \in Chans : WatchFetchError(ch)

SpecFault == InitWatch /\ [][NextFault]_vars

(***************************************************************************)
(* Concurrent writers of one kind and one subscribed watch of that kind:   *)
(* the watch is started first, then the writers race.                      *)
(***************************************************************************)
NextCoalesce ==
    \/ \E c \in Racers, req \in RaceRequests :
         /\ Len(journal) < MaxWriteCalls
         /\ PtrOf(req.md) = PA
         /\ \A ch \in Chans : watch[ch].pc \in {"send", "wait", "query"}
         /\ Call(c, req)
    \/ \E c \in Racers : Begin(c)
    \/ \E c \in Racers : Notify(c)
    \/ \E c \in Racers : NotifyDone(c)
    \/ \E ch \in Chans :
         watch[ch].pc = "none" /\ WatchCall(ch, "WatchKind", K1, NoWatchOptions)
    \/ \E ch \in Chans : WatchSnapshot(ch)
    \/ \E ch \in Chans : WatchSend(ch)
    \/ \E ch \in Chans : WatchWakeCounted(ch)
    \/ \E ch \in Chans : WatchFetch(ch)

SpecCoalesce == InitRace /\ [][NextCoalesce]_vars

(***************************************************************************)
(* The notifier with subscribers of its own: subscriptions of two keys are *)
(* taken, triggered, read and given up while a writer commits and notifies.*)
(***************************************************************************)
InitSub ==
    /\ resources = EmptyMap
    /\ events = <<>>
    /\ now = 1
    /\ cl = [c \in Clients |-> ClientIdle]
    /\ subs = EmptyMap
    /\ wake = [ch \in SubChans |-> 0]
    /\ options = DefaultOptions
    /\ comp = CompactIdle
    /\ journal = <<>>
    /\ dropped = {}
    /\ watch = [ch \in Chans |-> WatchNone]

\* channel ch is in the list of key k
Under(m, ch, k) == k \in DOMAIN m /\ ch \in Range(m[k])

\* Manager.Subscribe with a fresh channel; the channel takes a name no
\* subscription and no running Notify holds
SubscribeCh(ch, key) ==
    /\ \A k \in DOMAIN subs : ~Under(subs, ch, k)
    /\ \A c \in DOMAIN cl : ch \notin Range(cl[c].snap)
    /\ subs' = Subscribe(subs, key, ch)
    /\ wake' = [wake EXCEPT ![ch] = 0]
    /\ UNCHANGED <<resources, events, now, cl, options, comp, journal, dropped, watch>>

\* subscription.Unsubscribe
UnsubscribeCh(ch) ==
    /\ \E k \in DOMAIN subs :
          /\ Under(subs, ch, k)
          /\ subs' = Unsubscribe(subs, k, ch)
    /\ UNCHANGED <<resources, events, now, cl, wake, options, comp, journal, dropped, watch>>

\* subscription.TriggerNotify
TriggerNotifyCh(ch) ==
    /\ \E k \in DOMAIN subs : Under(subs, ch, k)
    /\ wake' = TrySend(wake, ch)
    /\ UNCHANGED <<resources, events, now, cl, subs, options, comp, journal, dropped, watch>>

\* the holder of a subscription reads its NotifyCh
ReceiveCh(ch) ==
    /\ wake[ch] > 0
    /\ wake' = [wake EXCEPT ![ch] = 0]
    /\ UNCHANGED <<resources, events, now, cl, subs, options, comp, journal, dropped, watch>>

NextSub ==
    \/ \E c \in Clients, p \in JournalPtrs :
         /\ Len(journal) < MaxWriteCalls
         /\ p \notin DOMAIN resources
         /\ Create(c, PlainResource(p, 0), "")
    \/ \E c \in Clients, p \in JournalPtrs :
         /\ Len(journal) < MaxWriteCalls
         /\ p \in DOMAIN resources
         /\ Destroy(c, p, "")
    \/ \E c \in Clients : Notify(c)
    \/ \E c \in Clients : NotifyDone(c)
    \/ \E ch \in SubChans, p \in JournalPtrs : SubscribeCh(ch, KeyOf(p))
    \/ \E ch \in SubChans : UnsubscribeCh(ch)
    \/ \E ch \in SubChans : TriggerNotifyCh(ch)
    \/ \E ch \in SubChans : ReceiveCh(ch)

SpecSub == InitSub /\ [][NextSub]_vars

(***************************************************************************)
(* NewState, the compaction runner and Close.  The fields of comp hold     *)
(* the state of the runner goroutine (runner), the ticker channel (tick),  *)
(* compactionCtx (cancelled), the shutdown channel (shutdown) and the      *)
(* position of the one Close call (close); by names the caller of the      *)
(* pass that holds compactMu.                                              *)
(***************************************************************************)
IntervalChoices == {0, 1}

\* NewState: the runner is spawned only for a positive CompactionInterval
NewState(c, opts) ==
    [c EXCEPT !.runner = IF opts.CompactionInterval > 0 THEN "start" ELSE "none"]

InitClose ==
    /\ resources = EmptyMap
    /\ events = <<>>
    /\ now = 1
    /\ cl = [c \in Clients |-> ClientIdle]
    /\ subs = EmptyMap
    /\ wake = [ch \in Chans |-> 0]
    /\ options \in [CompactKeepEvents : {0}, CompactMinAge : {-1},
                    CompactionInterval : IntervalChoices]
    /\ comp = NewState(CompactIdle, options)
    /\ journal = <<>>
    /\ dropped = {}
    /\ watch = [ch \in Chans |-> WatchNone]

\* variant: Close does not join the runner
CloseDone_NoWait(c) == TRUE

\* st.wg.Wait() returns: no runner was added to the group, or it is done
CloseDone(c) == c.runner \in {"none", "exited"}

\* Close, first statement: st.compactionCtxCancel()
CloseCancel ==
    /\ comp.close = "none"
    /\ comp' = [comp EXCEPT !.cancelled = TRUE, !.close = "cancelled"]
    /\ UNCHANGED <<resources, events, now, cl, subs, wake, options, journal, dropped, watch>>

\* Close, second statement: close(st.shutdown)
CloseShutdown ==
    /\ comp.close = "cancelled"
    /\ comp' = [comp EXCEPT !.shutdown = TRUE, !.close = "waiting"]
    /\ UNCHANGED <<resources, events, now, cl, subs, wake, options, journal, dropped, watch>>

\* Close, third statement: st.wg.Wait(), then the return
CloseReturn ==
    /\ comp.close = "waiting"
    /\ CloseDone(comp)
    /\ comp' = [comp EXCEPT !.close = "returned"]
    /\ UNCHANGED <<resources, events, now, cl, subs, wake, options, journal, dropped, watch>>

\* the runner calls Compact(compactionCtx): it waits for compactMu, and
\* Take fails on a cancelled context
RunnerCompact ==
    /\ comp.runner = "start"
    /\ comp.pc = "idle"
    /\ comp' = [(IF comp.cancelled
                 THEN CompactReturn(comp, "error")
                 ELSE CompactStart(comp, events, options, now))
                  EXCEPT !.since = Len(journal), !.by = "runner", !.runner = "pass"]
    /\ dropped' = {}
    /\ UNCHANGED <<resources, events, now, cl, subs, wake, options, journal, watch>>

\* a statement of the runner's pass is interrupted by the cancelled context
CompactInterrupted ==
    /\ comp.pc # "idle"
    /\ comp.by = "runner"
    /\ comp.cancelled
    /\ comp' = CompactReturn(comp, "error")
    /\ UNCHANGED <<resources, events, now, cl, subs, wake, options, journal, dropped, watch>>

\* Compact has returned to the runner, which logs the outcome
RunnerLog ==
    /\ comp.runner = "pass"
    /\ comp.pc = "idle" \/ comp.by # "runner"
    /\ comp' = [comp EXCEPT !.runner = "select"]
    /\ UNCHANGED <<resources, events, now, cl, subs, wake, options, journal, dropped, watch>>

\* select, case <-st.shutdown: return (with the deferred ticker.Stop and
\* wg.Done)
RunnerSelectShutdown ==
    /\ comp.runner = "select"
    /\ comp.shutdown
    /\ comp' = [comp EXCEPT !.runner = "exited", !.tick = FALSE]
    /\ UNCHANGED <<resources, events, now, cl, subs, wake, options, journal, dropped, watch>>

\* select, case <-ticker.C: the next round of the loop
RunnerSelectTick ==
    /\ comp.runner = "select"
    /\ comp.tick
    /\ comp' = [comp EXCEPT !.runner = "start", !.tick = FALSE]
    /\ UNCHANGED <<resources, events, now, cl, subs, wake, options, journal, dropped, watch>>

\* the ticker of a live runner fires: its channel holds one tick
TickerFire ==
    /\ comp.runner \in {"start", "pass", "select"}
    /\ ~comp.tick
    /\ comp.passes < MaxCompactions - 1
    /\ comp' = [comp EXCEPT !.tick = TRUE]
    /\ UNCHANGED <<resources, events, now, cl, subs, wake, options, journal, dropped, watch>>

\* a caller of the package runs Compact with a context of its own
UserCompact ==
    /\ comp.pc = "idle"
    /\ comp.runner # "pass" \/ comp.by = "runner"
    /\ comp.passes < MaxCompactions
    /\ comp' = [CompactStart(comp, events, options, now)
                  EXCEPT !.since = Len(journal), !.by = "user"]
    /\ dropped' = {}
    /\ UNCHANGED <<resources, events, now, cl, subs, wake, options, journal, watch>>

NextClose ==
    \/ \E c \in Clients :
         /\ Len(journal) < MaxCloseWrites
         /\ PA \notin DOMAIN resources
         /\ Create(c, PlainResource(PA, 0), "")
    \/ \E c \in Clients :
         /\ Len(journal) < MaxCloseWrites
         /\ PA \in DOMAIN resources
         /\ Destroy(c, PA, "")
    \/ \E c \in Clients : Notify(c)
    \/ \E c \in Clients : NotifyDone(c)
    \/ \E ch \in Chans :
         watch[ch].pc = "none" /\ WatchCall(ch, "WatchKind", K1, NoWatchOptions)
    \/ \E ch \in Chans : WatchSnapshot(ch)
    \/ \E ch \in Chans : WatchSend(ch)
    \/ \E ch \in Chans : WatchWake(ch)
    \/ \E ch \in Chans : WatchFetch(ch)
    \/ UserCompact
    \/ RunnerCompact
    \/ CompactProbe
    \/ CompactDelete
    \/ CompactInterrupted
    \/ RunnerLog
    \/ RunnerSelectShutdown
    \/ RunnerSelectTick
    \/ TickerFire
    \/ CloseCancel
    \/ CloseShutdown
    \/ CloseReturn

\* the scheduler runs every goroutine that can take a step; a select with
\* several ready cases picks each of them with positive probability
FairClose ==
    /\ WF_vars(RunnerCompact)
    /\ WF_vars(CompactProbe)
    /\ WF_vars(CompactDelete)
    /\ WF_vars(RunnerLog)
    /\ SF_vars(RunnerSelectShutdown)
    /\ WF_vars(CloseShutdown)
    /\ WF_vars(CloseReturn)

LiveClose == InitClose /\ [][NextClose]_vars /\ FairClose

(***************************************************************************)
(* The store with a writer, a watch and the compaction controller, with    *)
(* at least one event kept by a pass.                                      *)
(***************************************************************************)
InitKeep ==
    /\ InitJournal
    /\ options \in [CompactKeepEvents : 1..MaxKeep, CompactMinAge : {0}]

KeepWatchCalls(ch) ==
    {WatchCallOf("WatchKind", K1, NoWatchOptions)}
    \cup {WatchCallOf("WatchKind", K1, [NoWatchOptions EXCEPT !.StartFromBookmark = <<b>>])
            : b \in Bookmarks(watch[ch])}

NextKeep ==
    \/ \E c \in Clients :
         /\ Len(journal) < MaxWatchWrites
         /\ PA \notin DOMAIN resources
         /\ Create(c, PlainResource(PA, 0), "")
    \/ \E c \in Clients :
         /\ Len(journal) < MaxWatchWrites
         /\ PA \in DOMAIN resources
         /\ Update(c, PlainResource(PA, resources[PA].version), "", NULL)
    \/ \E c \in Clients : Notify(c)
    \/ \E c \in Clients : NotifyDone(c)
    \/ Tick
    \/ Compact
    \/ CompactProbe
    \/ CompactDelete
    \/ \E ch \in Chans : \E call \in KeepWatchCalls(ch) :
         WatchCall(ch, call.kind, call.scope, call.opts)
    \/ \E ch \in Chans : WatchSnapshot(ch)
    \/ \E ch \in Chans : WatchSend(ch)
    \/ \E ch \in Chans : WatchWake(ch)
    \/ \E ch \in Chans : WatchDone(ch)
    \/ \E ch \in Chans : WatchFetch(ch)
    \/ \E ch \in Chans : WatchCancel(ch)

SpecKeep == InitKeep /\ [][NextKeep]_vars

(***************************************************************************)
(* Bookmarks of event ids over the range of the id: a consumer is handed   *)
(* the bookmark of an event id and hands a bookmark back to be decoded.    *)
(***************************************************************************)
BookmarkIds ==
    {-2147483647, -16777217, -65537, -65536, -257, -256, -255, -2, -1,
     0, 1, 2, 127, 128, 255, 256, 257, 511, 512, 65535, 65536, 65537,
     16777215, 16777216, 2147483646, 2147483647}

\* a bookmark that is not 8 bytes long
ShortBookmark == <<1>>

\* encodeBookmark is applied to an event id; the consumer keeps the result
EncodeCall(ch, id) ==
    /\ Cardinality(watch[ch].held) < 2 \/ encodeBookmark(id) \in watch[ch].held
    /\ watch' = [watch EXCEPT ![ch].eventID = id,
                              ![ch].held = watch[ch].held \cup {encodeBookmark(id)}]
    /\ UNCHANGED <<resources, events, now, cl, subs, wake, options, comp, journal, dropped>>

\* decodeBookmark is applied to a bookmark the consumer hands in
DecodeCall(ch, bookmark) ==
    /\ LET dec == decodeBookmark(bookmark)
       IN  watch' = [watch EXCEPT ![ch].start = dec.id,
                                  ![ch].err = IF dec.err THEN ErrInvalidWatchBookmark ELSE Ok,
                                  ![ch].opts = [NoWatchOptions EXCEPT !.StartFromBookmark = <<bookmark>>]]
    /\ UNCHANGED <<resources, events, now, cl, subs, wake, options, comp, journal, dropped>>

\* the consumer forgets the bookmarks it holds
ForgetBookmarks(ch) ==
    /\ watch[ch].held # {}
    /\ watch' = [watch EXCEPT ![ch].held = {}]
    /\ UNCHANGED <<resources, events, now, cl, subs, wake, options, comp, journal, dropped>>

NextBookmark ==
    \/ \E ch \in Chans, id \in BookmarkIds : EncodeCall(ch, id)
    \/ \E ch \in Chans : \E b \in watch[ch].held \cup {ShortBookmark} : DecodeCall(ch, b)
    \/ \E ch \in Chans : ForgetBookmarks(ch)

SpecBookmark == InitWatch /\ [][NextBookmark]_vars

(***************************************************************************)
(* List under label and id queries: writers store resources of two kinds   *)
(* with and without labels, and a reader lists a kind under a query.       *)
(***************************************************************************)
K2 == Ptr("ns1", "t2", "")
ListKinds == {K1, K2}
ListPtrs == {PA, PC}
ListLabelSets == {NoLabels, {<<"env", "prod">>}, {<<"env", "dev">>}, {<<"app", "x">>}}

\* the terms on the key env: EXISTS, EQUAL, IN, LT and LTE, plain and inverted
ListTerms ==
    {LabelTerm("env", op, <<>>, inv) : op \in {"EXISTS"}, inv \in BOOLEAN}
      \cup {LabelTerm("env", "EQUAL", <<"prod">>, inv) : inv \in BOOLEAN}
      \cup {LabelTerm("env", "IN", <<"prod", "x">>, inv) : inv \in BOOLEAN}
      \cup {LabelTerm("env", "LT", <<"prod">>, inv) : inv \in BOOLEAN}
      \cup {LabelTerm("env", "LTE", <<"dev">>, inv) : inv \in BOOLEAN}

\* the list options of the reader: no query, one term, two terms of one
\* query, two queries, an id query
ListOptionChoices ==
    {[LabelQueries |-> <<>>, IDQuery |-> NULL],
     [LabelQueries |-> <<>>, IDQuery |-> <<{"a"}>>],
     [LabelQueries |-> <<<<LabelTerm("env", "EXISTS", <<>>, FALSE),
                           LabelTerm("env", "LT", <<"prod">>, FALSE)>>>>, IDQuery |-> NULL],
     [LabelQueries |-> <<<<LabelTerm("env", "EQUAL", <<"prod">>, FALSE)>>,
                         <<LabelTerm("env", "EQUAL", <<"dev">>, FALSE)>>>>, IDQuery |-> NULL]}
      \cup {[LabelQueries |-> <<<<t>>>>, IDQuery |-> NULL] : t \in ListTerms}

\* State.List returns to the caller
ListCall(c, kind, opts) ==
    /\ cl[c].pc = "idle"
    /\ cl' = [cl EXCEPT ![c].list =
                  [kind |-> kind, opts |-> opts, items |-> List(resources, kind, opts)]]
    /\ UNCHANGED <<resources, events, now, subs, wake, options, comp, journal, dropped, watch>>

NextList ==
    \/ \E c \in Clients, p \in ListPtrs, labels \in ListLabelSets :
         /\ Len(journal) < MaxWatchWrites
         /\ p \notin DOMAIN resources
         /\ Create(c, LabelledResource(p, 0, labels), "")
    \/ \E c \in Clients, p \in ListPtrs, labels \in ListLabelSets :
         /\ Len(journal) < MaxWatchWrites
         /\ p \in DOMAIN resources
         /\ Update(c, LabelledResource(p, resources[p].version, labels), "", NULL)
    \/ \E c \in Clients, p \in ListPtrs :
         /\ Len(journal) < MaxWatchWrites
         /\ p \in DOMAIN resources
         /\ Destroy(c, p, "")
    \/ \E c \in Clients : Notify(c)
    \/ \E c \in Clients : NotifyDone(c)
    \/ \E c \in Clients, kind \in ListKinds, opts \in ListOptionChoices :
         ListCall(c, kind, opts)

SpecList == InitWatch /\ [][NextList]_vars

(***************************************************************************)
(* Properties of the journal and of compaction.                            *)
(***************************************************************************)
Keep == options.CompactKeepEvents
MinAge == options.CompactMinAge
\* a compaction pass returns in this step
PassCompletes == comp'.passes # comp.passes

\* C2: event ids are strictly increasing in commit order: of any two
\* committed writes the later one has the larger event id, also when
\* compaction passes run between or during the writes.
C2_EventIdsIncrease ==
    \A i, j \in DOMAIN journal : i < j => journal[i].event_id < journal[j].event_id

\* C6: after a compaction pass completes, every event left in the log is
\* within the last CompactKeepEvents ids of max(event_id) or has a timestamp
\* of at least now - CompactMinAge.
C6_RecencyAfterEveryPass ==
    [][PassCompletes =>
        \A e \in Range(events') :
            \/ e.event_id > MaxEventID(events') - Keep
            \/ e.event_timestamp >= now' - MinAge]_vars

\* what a pass does achieve: after a compaction pass that deleted at least
\* one event, every event left in the log has an id above
\* maxId - CompactKeepEvents or a timestamp of at least
\* now - CompactMinAge, maxId and now being the values the pass read when it
\* started.
RecencyAfterDeletingPass ==
    [][(PassCompletes /\ dropped' # {}) =>
        \A e \in Range(events') :
            \/ e.event_id > comp'.maxEventID - Keep
            \/ e.event_timestamp >= comp'.cutoffTime]_vars

DeletingPassSeen ==
    /\ comp.pc = "idle" /\ comp.passes > 0 /\ comp.res = "ok"
    /\ dropped # {}
    /\ \E e \in Range(events) : e.event_id <= comp.maxEventID - Keep

\* C7: compaction never deletes an event whose timestamp is at least
\* now - CompactMinAge (now as the pass read it when it started), whatever
\* the number of events and whatever CompactKeepEvents is.
C7_AgeRetention ==
    \A e \in dropped : e.event_timestamp < comp.cutoffTime

\* C8: compaction never deletes an event whose id is above
\* maxId - CompactKeepEvents (maxId read at the start of the pass), and of a
\* log that held more than CompactKeepEvents events at least
\* CompactKeepEvents of them remain.
C8_CountRetention ==
    /\ \A e \in dropped : e.event_id <= comp.maxEventID - Keep
    /\ LET survivors == {e \in Range(events) : e.event_id <= comp.maxEventID}
       IN  (comp.passes > 0 \/ comp.pc # "idle") =>
             (Cardinality(survivors) + Cardinality(dropped) > Keep
                => Cardinality(survivors) >= Keep)

C8_Witness ==
    /\ comp.pc = "idle" /\ comp.passes > 0
    /\ Keep > 0
    /\ dropped # {}
    /\ Cardinality({e \in Range(events) : e.event_id <= comp.maxEventID}) = Keep

(***************************************************************************)
(* Properties of the write path.                                           *)
(***************************************************************************)
EventTypeCode(op) ==
    CASE op = "Create" -> EventCreated [] op = "Update" -> EventUpdated [] OTHER -> EventDeleted

\* C1: the event log holds exactly one row per successful write and none
\* for a failed one: the i-th row belongs to the i-th successful call, has
\* type 1 for a Create, 2 for an Update, 3 for a Destroy and carries the
\* (namespace, type, id) of the resource written.
C1_EventPerWrite ==
    /\ Len(events) = Len(journal)
    /\ \A i \in DOMAIN journal :
          /\ events[i].event_id = journal[i].event_id
          /\ events[i].event_type = EventTypeCode(journal[i].op)
          /\ Ptr(events[i].ns, events[i].typ, events[i].id) = journal[i].ptr

C1_Witness ==
    /\ [i \in DOMAIN journal |-> journal[i].op] = <<"Create", "Update", "Destroy">>
    /\ \A i \in DOMAIN journal : journal[i].ptr = PB
    /\ \A c \in Clients : cl[c].pc = "idle"

\* C9: an Update of an existing resource whose version differs from the
\* stored one fails with version-conflict(expected = supplied version,
\* actual = stored version); the row, the event log and the caller's
\* metadata stay as they were and no subscriber is notified, every time.
\* (in every state the transaction of every stale Update ends so and
\* commits nothing, and a call that returns an error leaves everything but
\* the caller's result as it was)
C9_StaleUpdate ==
    /\ [](\A newResource \in WriteResources, optOwner \in Owners, expectedPhase \in PhaseChoices :
            LET p == PtrOf(newResource)
                db == DB(resources, events)
                tx == UpdateTx(db, newResource, optOwner, expectedPhase, now)
            IN  (p \in DOMAIN resources /\ resources[p].version # newResource.ver)
                => /\ tx.err = ErrVersionConflict(newResource.ver, resources[p].version)
                   /\ tx.db = db
                   /\ tx.md = newResource)
    /\ [][\A c \in Clients :
            (cl[c].pc = "idle" /\ cl'[c].pc = "idle" /\ cl'[c].res # cl[c].res)
            => /\ cl'[c] = [cl[c] EXCEPT !.res = cl'[c].res]
               /\ UNCHANGED <<resources, events, journal, subs, wake>>]_vars

C9_Witness ==
    /\ \E c \in Clients :
          cl[c].res.kind = "version-conflict" /\ cl[c].res.expected # cl[c].res.actual
    /\ \E ch \in Chans : watch[ch].pc = "wait" /\ wake[ch] = 0
    /\ Len(journal) >= 2

\* C10: a successful Create stores the next of the version it is given, a
\* successful Update the next of the version stored before it: while a
\* resource exists its stored version advances by exactly one per Update,
\* and the version column is the version of the stored resource.
C10_MonotonicVersion ==
    [][\A p \in WritePtrs :
        /\ (p \notin DOMAIN resources /\ p \in DOMAIN resources')
              => \E c \in Clients :
                    /\ cl[c].pc = "idle" /\ cl'[c].pc = "notify"
                    /\ cl'[c].req.op = "Create"
                    /\ resources'[p].version = VersionNext(cl'[c].req.md.ver)
        /\ (p \in DOMAIN resources /\ p \in DOMAIN resources' /\ resources'[p] # resources[p])
              => \E c \in Clients :
                    /\ cl[c].pc = "idle" /\ cl'[c].pc = "notify"
                    /\ cl'[c].req.op = "Update"
                    /\ resources'[p].version = VersionNext(resources[p].version)
        /\ \A c \in Clients :
              (p \in DOMAIN resources /\ p \in DOMAIN resources' /\ cl'[c].pc = "notify"
                  /\ cl[c].pc = "idle" /\ PtrOf(cl'[c].req.md) = p)
              => resources'[p].version = resources[p].version + 1
        /\ p \in DOMAIN resources'
              => UnmarshalResource(resources'[p].spec).ver = resources'[p].version]_vars

C10_Witness ==
    \E p \in WritePtrs :
        /\ p \in DOMAIN resources
        /\ resources[p].version = MaxVersion + 1
        /\ Len(SelectSeq(journal, LAMBDA j : j.ptr = p /\ j.op = "Update")) = 2

(***************************************************************************)
(* Properties of the watch engine.                                         *)
(***************************************************************************)
RECURSIVE Concat(_)
Concat(seqs) == IF seqs = <<>> THEN <<>> ELSE Head(seqs) \o Concat(Tail(seqs))

\* the events a watch has delivered from the event log, in delivery order
LogEvents(w) ==
    SelectSeq(Concat(SubSeq(w.out, w.initial + 1, Len(w.out))), LAMBDA e : e.Type # "Errored")

InScope(w, p) ==
    p.ns = w.scope.ns /\ p.typ = w.scope.typ /\ (IsPoint(w) => p.id = w.scope.id)

\* the committed writes of the scope of a watch above an event id
ScopeJournal(w, id) ==
    SelectSeq(journal, LAMBDA j : InScope(w, j.ptr) /\ j.event_id > id)

EventTypeOf(op) ==
    CASE op = "Create" -> "Created" [] op = "Update" -> "Updated" [] OTHER -> "Destroyed"

\* a delivered event is the conversion of a committed write
StandsFor(ev, j) ==
    /\ decodeBookmark(ev.Bookmark) = [err |-> FALSE, id |-> j.event_id]
    /\ PtrOf(ev.Resource) = j.ptr
    /\ ev.Type = EventTypeOf(j.op)

\* the delivered log events are, in order, the first writes of a sequence
DeliversPrefixOf(w, writes) ==
    LET evs == LogEvents(w)
    IN  /\ Len(evs) <= Len(writes)
        /\ \A i \in DOMAIN evs : StandsFor(evs[i], writes[i])

Streaming(w) == w.pc \in {"send", "wait", "query", "returned"}

\* C3: the events a watch delivers from the log are, in order, the event
\* rows of its scope with an id greater than its starting id: their ids
\* strictly increase, no row is delivered twice, and none is of another
\* namespace, type or (for a point watch) id.
C3_WatchOrder ==
    \A ch \in Chans :
        LET w == watch[ch]
            evs == LogEvents(w)
        IN  Streaming(w) =>
              /\ DeliversPrefixOf(w, ScopeJournal(w, w.start))
              /\ \A i \in DOMAIN evs : InScope(w, PtrOf(evs[i].Resource))
              /\ \A i, k \in DOMAIN evs :
                    i < k => decodeBookmark(evs[i].Bookmark).id < decodeBookmark(evs[k].Bookmark).id

C3_Witness ==
    \E ch \in Chans :
        LET evs == LogEvents(watch[ch])
        IN  /\ Len(evs) >= 2
            /\ decodeBookmark(evs[2].Bookmark).id > decodeBookmark(evs[1].Bookmark).id + 1

\* C4: no wakeup is lost: a running watch whose context is not cancelled
\* ends up having delivered every row of its scope committed after its
\* snapshot, also when a write commits and notifies while the watch drains
\* and when several writes share one wakeup.
C4_NoLostWakeup ==
    <>[](\A ch \in Chans :
            LET w == watch[ch]
            IN  (w.pc \in {"send", "wait", "query"} /\ ~w.cancelled) =>
                    /\ DeliversPrefixOf(w, ScopeJournal(w, w.start))
                    /\ Len(LogEvents(w)) = Len(ScopeJournal(w, w.start)))

C4_Witness ==
    \E ch \in Chans :
        LET w == watch[ch]
        IN  /\ w.pc = "wait" /\ ~w.cancelled /\ wake[ch] = 0
            /\ \E c \in Clients : cl[c].pc = "fanout"
            /\ Len(LogEvents(w)) = Len(ScopeJournal(w, w.start))
            /\ Len(LogEvents(w)) >= 2

\* a watch resumed from a bookmark its consumer got from a watch of the
\* same scope
ResumedFromHeld(w) ==
    /\ w.pc \notin {"none", "setup"}
    /\ w.resumed
    /\ w.prev = w.scope
    /\ w.opts.StartFromBookmark # NULL
    /\ w.opts.StartFromBookmark[1] \in w.held
    /\ w.opts.TailEvents = 0
    /\ ~w.opts.BootstrapContents
    /\ w.err # ErrCanceled

\* C5: the bookmark of every delivered event decodes to the event id it
\* stands for (the row's id for a log event, the snapshot's id for an initial
\* event and for the Bootstrapped and Noop sentinels), and a new watch of the
\* same scope started from that bookmark succeeds and delivers the events of
\* the scope with a strictly later id, and only those, in order.
C5_BookmarkRoundTrip ==
    \A ch \in Chans :
        LET w == watch[ch]
        IN  /\ \A i \in DOMAIN w.out : \A ev \in Range(w.out[i]) :
                  (ev.Bookmark # NULL /\ i <= w.initial) =>
                      decodeBookmark(ev.Bookmark) = [err |-> FALSE, id |-> w.start]
            /\ Streaming(w) => DeliversPrefixOf(w, ScopeJournal(w, w.start))
            /\ ResumedFromHeld(w) =>
                  /\ w.pc # "failed"
                  /\ w.start = decodeBookmark(w.opts.StartFromBookmark[1]).id

(***************************************************************************)
(* Properties of concurrent callers.                                       *)
(***************************************************************************)
\* the call of client c runs its transaction in this step
Runs(c, op) == cl[c].pc = "begin" /\ cl'[c].pc # "begin" /\ cl[c].req.op = op

\* the latest event of identity p before position i of the log, 0 if none
PriorEvent(evs, i) ==
    LET same == {k \in 1..(i - 1) : evs[k].ns = evs[i].ns /\ evs[k].typ = evs[i].typ
                                     /\ evs[k].id = evs[i].id}
    IN  IF same = {} THEN 0 ELSE CHOOSE k \in same : \A j \in same : j <= k

\* a racer has committed call op on p and has not yet returned, and another
\* racer that made the same call before that commit has returned with err
RaceDecided(op, err(_)) ==
    \E c, d \in Racers :
        /\ c # d
        /\ cl[c].pc \in {"notify", "fanout"} /\ cl[c].req.op = op
        /\ cl[d].pc = "idle" /\ cl[d].req = cl[c].req
        /\ cl[d].seen < Len(journal) /\ journal[Len(journal)].ptr = PtrOf(cl[c].req.md)
        /\ cl[d].res = err(cl[c].req.md.ver)

\* C11: of several concurrent Update calls that carry the same current
\* version of a resource exactly one succeeds and the others fail with
\* version-conflict: an Update that runs on the version it carries commits
\* and stores the next version, after which every waiting Update with that
\* version is stale; an Update that runs on another stored version returns
\* version-conflict and changes nothing; and in the event log every update
\* is built on the state the previous event of the resource left (no lost
\* update, no two updates from one version).
C11_OneUpdateWins ==
    /\ [][\A c \in Racers : Runs(c, "Update") =>
            LET req == cl[c].req
                p == PtrOf(req.md)
            IN  (p \in DOMAIN resources) =>
                  IF resources[p].version = req.md.ver
                  THEN /\ cl'[c].pc = "notify"
                       /\ resources'[p].version = VersionNext(req.md.ver)
                       /\ resources'[p].spec = MarshalResource(cl'[c].new)
                       /\ Len(events') = Len(events) + 1
                       /\ events'[Len(events')].spec_before = resources[p].spec
                       /\ events'[Len(events')].spec_after = resources'[p].spec
                       /\ \A d \in Racers \ {c} :
                            (cl[d].pc = "begin" /\ cl[d].req = req)
                              => UpdateTx(DB(resources', events'), cl[d].req.md, cl[d].req.owner,
                                          cl[d].req.phase, now).err
                                   = ErrVersionConflict(req.md.ver, VersionNext(req.md.ver))
                  ELSE /\ cl'[c].pc = "idle"
                       /\ cl'[c].res = ErrVersionConflict(req.md.ver, resources[p].version)
                       /\ UNCHANGED <<resources, events, journal>>]_vars
    /\ [](\A i \in DOMAIN events :
            events[i].event_type = EventUpdated =>
              LET k == PriorEvent(events, i)
              IN  /\ k # 0
                  /\ events[k].spec_after = events[i].spec_before
                  /\ UnmarshalResource(events[i].spec_after).ver
                       = VersionNext(UnmarshalResource(events[i].spec_before).ver))

C11_Witness ==
    RaceDecided("Update", LAMBDA v : ErrVersionConflict(v, VersionNext(v)))

\* C12: of several concurrent Destroy calls on an existing resource
\* (matching owner, no finalizers) exactly one succeeds and the others
\* return not-found and no other error: a Destroy that finds the row commits,
\* removes it and logs one delete event; one that does not find it returns
\* not-found and changes nothing; and the log never holds two delete events
\* of an identity without a create event between them.
C12_OneDestroyWins ==
    /\ [][\A c \in Racers : Runs(c, "Destroy") =>
            LET p == PtrOf(cl[c].req.md)
            IN  IF p \in DOMAIN resources
                THEN /\ cl'[c].pc = "notify"
                     /\ p \notin DOMAIN resources'
                     /\ Len(events') = Len(events) + 1
                     /\ events'[Len(events')].event_type = EventDeleted
                     /\ events'[Len(events')].spec_before = resources[p].spec
                     /\ \A d \in Racers \ {c} :
                          (cl[d].pc = "begin" /\ cl[d].req = cl[c].req)
                            => DestroyTx(DB(resources', events'), p, cl[d].req.owner, now).err
                                 = ErrNotFound
                ELSE /\ cl'[c].pc = "idle"
                     /\ cl'[c].res = ErrNotFound
                     /\ UNCHANGED <<resources, events, journal>>]_vars
    /\ [](\A c \in Racers :
            (cl[c].pc = "idle" /\ cl[c].req.op = "Destroy") => cl[c].res = ErrNotFound)
    /\ [](\A i \in DOMAIN events :
            events[i].event_type = EventDeleted =>
              LET k == PriorEvent(events, i)
              IN  k # 0 /\ events[k].event_type # EventDeleted)

C12_Witness ==
    RaceDecided("Destroy", LAMBDA v : ErrNotFound)

(***************************************************************************)
(* Properties of the preconditions of the write path.                      *)
(***************************************************************************)
\* a call of client c returns error err in this step
Fails(c, err) == cl[c].pc = "idle" /\ cl'[c].pc = "idle" /\ cl'[c].res # cl[c].res /\ cl'[c].res = err

\* a failed call leaves the tables, the subscribers, their wakeups and the
\* caller's metadata as they were
NothingChanged(c) ==
    /\ cl'[c] = [cl[c] EXCEPT !.res = cl'[c].res]
    /\ UNCHANGED <<resources, events, journal, subs, wake>>

\* C13: Create of an identity that already exists fails with already-exists
\* and changes nothing: the stored resource is the original one, no event is
\* added, no subscriber is notified and the caller's metadata is as passed.
C13_CreateExisting ==
    \A res \in WriteResources, optOwner \in Owners :
        LET db == DB(resources, events)
            tx == CreateTx(db, res, optOwner, now)
        IN  PtrOf(res) \in DOMAIN resources
              => /\ tx.err = ErrAlreadyExists
                 /\ tx.db = db
                 /\ tx.md = res

\* C13 (amended): Create of an identity that already exists, with a
\* resource whose owner is unset or is the owner of the options, fails with
\* already-exists and changes nothing: Get returns the original resource, no
\* event is added, no subscriber is notified and the caller's metadata is as
\* passed in.  (With another owner already set on the resource Create fails
\* on the owner before it reaches the table, and changes nothing either.)
C13_CreateExistingSettableOwner ==
    /\ [](\A res \in WriteResources, optOwner \in Owners :
            LET db == DB(resources, events)
                tx == CreateTx(db, res, optOwner, now)
            IN  PtrOf(res) \in DOMAIN resources
                  => /\ tx.err = IF SetOwnerFails(res, optOwner)
                                 THEN ErrOwnerSet ELSE ErrAlreadyExists
                     /\ tx.db = db
                     /\ Get(tx.db, PtrOf(res)) = Get(db, PtrOf(res))
                     /\ Get(tx.db, PtrOf(res)).err = Ok
                     /\ tx.md = res)
    /\ [][\A c \in Clients : Fails(c, ErrAlreadyExists) => NothingChanged(c)]_vars

C13_Witness ==
    \E c \in Clients :
        /\ cl[c].res = ErrAlreadyExists
        /\ cl[c].pc = "idle"
        /\ DOMAIN resources # {}

\* the error the preconditions of Destroy call for, in their order
DestroyOutcome(rs, p, optOwner) ==
    IF p \notin DOMAIN rs THEN ErrNotFound
    ELSE IF rs[p].owner # optOwner THEN ErrOwnerConflict
    ELSE IF rs[p].finalizers # <<>> THEN ErrPendingFinalizers
    ELSE Ok

\* C14: Destroy reports the first failing precondition in the order
\* not-found, owner-conflict, pending-finalizers, and on each of them the
\* row stays and no delete event is logged; with the owner matching and
\* the finalizers removed it succeeds: the row is gone and one Destroyed
\* event is logged.
C14_DestroyOrder ==
    /\ [](\A p \in WritePtrs, optOwner \in Owners :
            LET db == DB(resources, events)
                tx == DestroyTx(db, p, optOwner, now)
                want == DestroyOutcome(resources, p, optOwner)
            IN  /\ tx.err = want
                /\ want # Ok => tx.db = db
                /\ want = Ok =>
                     /\ p \notin DOMAIN tx.db.resources
                     /\ Len(tx.db.events) = Len(events) + 1
                     /\ SubSeq(tx.db.events, 1, Len(events)) = events
                     /\ LET ev == convertEvent(tx.db.events[Len(tx.db.events)])
                        IN  /\ ev.Type = "Destroyed"
                            /\ PtrOf(ev.Resource) = p
                            /\ Get(db, p).res = <<ev.Resource>>)
    /\ [][\A c \in Clients :
            (Fails(c, ErrOwnerConflict) \/ Fails(c, ErrPendingFinalizers) \/ Fails(c, ErrNotFound))
              => NothingChanged(c)]_vars

\* a resource created with a finalizer, updated to drop it, then destroyed
C14_Witness ==
    /\ Len(events) = 3
    /\ [i \in DOMAIN journal |-> journal[i].op] = <<"Create", "Update", "Destroy">>
    /\ \A i \in DOMAIN journal : journal[i].ptr = PA
    /\ UnmarshalResource(events[1].spec_after).fins # <<>>
    /\ UnmarshalResource(events[2].spec_after).fins = <<>>
    /\ PA \notin DOMAIN resources

\* the error the preconditions of Update call for, in their order
UpdateOutcome(rs, newResource, optOwner, expectedPhase) ==
    LET p == PtrOf(newResource)
    IN  IF p \notin DOMAIN rs THEN ErrNotFound
        ELSE IF rs[p].version # newResource.ver
            THEN ErrVersionConflict(newResource.ver, rs[p].version)
        ELSE IF rs[p].owner # optOwner THEN ErrOwnerConflict
        ELSE IF expectedPhase # NULL /\ rs[p].phase # expectedPhase[1] THEN ErrPhaseConflict
        ELSE Ok

\* C15: Update reports the first failing precondition in the order
\* not-found, version-conflict, owner-conflict, phase-conflict; a call that
\* fails several checks gets the earliest error, and the row is unchanged.
C15_UpdateOrder ==
    \A newResource \in WriteResources, optOwner \in Owners, expectedPhase \in PhaseChoices :
        LET db == DB(resources, events)
            tx == UpdateTx(db, newResource, optOwner, expectedPhase, now)
            want == UpdateOutcome(resources, newResource, optOwner, expectedPhase)
        IN  /\ tx.err = want
            /\ want # Ok => tx.db = db /\ tx.md = newResource

\* a stored resource on which one Update can fail the version, the owner
\* and the phase check at once, and a call that got the earliest error
C15_Witness ==
    \E c \in Clients, p \in WritePtrs :
        /\ p \in DOMAIN resources
        /\ resources[p].version = 2
        /\ resources[p].owner = "o1"
        /\ resources[p].phase = PhaseTearingDown
        /\ cl[c].pc = "idle"
        /\ cl[c].res = ErrVersionConflict(0, 2)

(***************************************************************************)
(* Properties of watch setup and of the first events of a watch.           *)
(***************************************************************************)
\* the notifier holds a subscription of channel ch
Subscribed(ch) == \E k \in DOMAIN subs : ch \in Range(subs[k])

\* C19: a watch call that returns an error does so from the call itself,
\* before any thread exists: the notifier holds no subscription for it,
\* nothing was sent on its channel and nothing is queued to be sent, and
\* no thread step ever follows.
C19_SetupErrorsLeaveNothing ==
    /\ [](\A ch \in Chans :
            watch[ch].pc = "failed"
              => /\ ~Subscribed(ch)
                 /\ watch[ch].out = <<>>
                 /\ watch[ch].queue = <<>>
                 /\ watch[ch].err \in {ErrCanceled, ErrUnsupported, ErrInvalidWatchBookmark})
    /\ [][\A ch \in Chans :
            /\ (watch'[ch].pc = "failed" /\ watch[ch].pc # "failed") => watch[ch].pc = "setup"
            /\ watch[ch].pc = "failed" => watch'[ch].pc \in {"failed", "setup"}
            /\ (watch[ch].pc = "failed" /\ watch'[ch].pc = "failed") => watch'[ch] = watch[ch]]_vars

\* a watch call has failed on a bookmark while the store has been written
C19_Witness ==
    \E ch \in Chans :
        /\ watch[ch].pc = "failed"
        /\ watch[ch].err = ErrInvalidWatchBookmark
        /\ watch[ch].kind = "WatchKindAggregated"
        /\ Len(journal) > 0

\* the event rows of the pointer of a watch up to its snapshot
RowsAtSnapshot(w) ==
    SelectSeq(events, LAMBDA e :
        e.event_id <= w.start /\ Ptr(e.ns, e.typ, e.id) = w.scope)

\* the initial event the log calls for: the resource as its last row up to
\* the snapshot left it
InitialEventOf(w) ==
    LET rows == RowsAtSnapshot(w)
    IN  IF rows = <<>> \/ rows[Len(rows)].event_type = EventDeleted
        THEN Event("Destroyed", Tombstone(w.scope), NULL, encodeBookmark(w.start))
        ELSE Event("Created", UnmarshalResource(rows[Len(rows)].spec_after), NULL,
                   encodeBookmark(w.start))

\* a point watch without bookmark sends its initial event first, and every
\* later event is the conversion of a row of its pointer above the snapshot
InitialEventFirst(w) ==
    /\ w.out = <<>> => w.pc \in {"send", "returned"}
    /\ (w.out = <<>> /\ w.pc = "send") => Head(w.queue) = <<InitialEventOf(w)>>
    /\ w.out # <<>> => w.out[1] = <<InitialEventOf(w)>>
    /\ PtrOf(InitialEventOf(w).Resource) = w.scope
    /\ \A i \in 2..Len(w.out) :
          \E k \in DOMAIN events :
              /\ events[k].event_id > w.start
              /\ Ptr(events[k].ns, events[k].typ, events[k].id) = w.scope
              /\ w.out[i] = <<convertEvent(events[k])>>

\* every call of the script has returned and the thread sleeps unwoken
LifeOver(ch) ==
    /\ Len(journal) = Len(LifeScript)
    /\ \A c \in Clients : cl[c].pc = "idle"
    /\ watch[ch].pc = "wait" /\ wake[ch] = 0

\* C18: a point Watch started without a bookmark sends the initial state
\* first, Created with the current resource or Destroyed with a tombstone
\* of the watched pointer, and every later event is a write committed after
\* that snapshot; a watch started before the resource exists, which then
\* sees it created, torn down, given a finalizer, relieved of it and
\* destroyed, delivers exactly six events.
C18_InitialEventFirst ==
    \A ch \in Chans :
        LET w == watch[ch]
        IN  (IsPoint(w) /\ w.opts.StartFromBookmark = NULL /\ Streaming(w)) =>
              /\ InitialEventFirst(w)
              /\ Len(w.out) <= 1 + (MaxEventID(events) - w.start)
              /\ LifeOver(ch) =>
                   /\ Len(w.out) = 1 + (Len(LifeScript) - w.start)
                   /\ w.start = 0 =>
                        [i \in DOMAIN w.out |-> w.out[i][1].Type]
                          = <<"Destroyed", "Created", "Updated", "Updated", "Updated", "Destroyed">>

C18_Witness ==
    \E ch \in Chans :
        /\ LifeOver(ch)
        /\ watch[ch].start = 0
        /\ Len(watch[ch].out) = 6

(***************************************************************************)
(* Properties of kind watches with a predicate.                            *)
(***************************************************************************)
\* a resource satisfies the label and id predicate of a watch
Satisfies(w, md) ==
    /\ LabelQueriesMatches(w.opts.LabelQueries, md.labels)
    /\ IDQueryMatches(w.opts.IDQuery, md)

\* what an event row is to be delivered as: nothing, or one event
Transition(w, row) ==
    LET bm == encodeBookmark(row.event_id)
    IN  CASE row.event_type = EventCreated ->
                LET new == UnmarshalResource(row.spec_after)
                IN  IF Satisfies(w, new) THEN <<Event("Created", new, NULL, bm)>> ELSE <<>>
          [] row.event_type = EventDeleted ->
                LET old == UnmarshalResource(row.spec_before)
                IN  IF Satisfies(w, old) THEN <<Event("Destroyed", old, NULL, bm)>> ELSE <<>>
          [] OTHER ->
                LET old == UnmarshalResource(row.spec_before)
                    new == UnmarshalResource(row.spec_after)
                IN  IF Satisfies(w, old) /\ Satisfies(w, new)
                        THEN <<Event("Updated", new, <<old>>, bm)>>
                    ELSE IF Satisfies(w, new) THEN <<Event("Created", new, NULL, bm)>>
                    ELSE IF Satisfies(w, old) THEN <<Event("Destroyed", new, NULL, bm)>>
                    ELSE <<>>

\* the rows of the kind of a watch above its snapshot, by event id
RowsAfterSnapshot(w) ==
    SelectSeq(events, LAMBDA e :
        e.event_id > w.start /\ e.ns = w.scope.ns /\ e.typ = w.scope.typ)

\* the events those rows are to be delivered as, in order
Transitions(w) ==
    LET rows == RowsAfterSnapshot(w)
    IN  Concat([i \in DOMAIN rows |-> Transition(w, rows[i])])

\* every call has returned and the thread sleeps unwoken
Drained(ch) ==
    /\ \A c \in Clients : cl[c].pc = "idle"
    /\ watch[ch].pc = "wait" /\ wake[ch] = 0

\* C16: a kind watch with a label or id predicate delivers a row as
\* Created iff the resource newly satisfies the predicate, as Destroyed iff
\* it newly stops satisfying it, as Updated iff the old and the new version
\* satisfy it, and drops it when neither does; a rewritten event carries no
\* old resource.
C16_MatchTransition ==
    \A ch \in Chans :
        LET w == watch[ch]
            got == LogEvents(w)
            want == Transitions(w)
        IN  (~IsPoint(w) /\ Streaming(w)) =>
              /\ Len(got) <= Len(want)
              /\ got = SubSeq(want, 1, Len(got))
              /\ Drained(ch) => got = want
              /\ \A i \in DOMAIN got : got[i].Old # NULL <=> got[i].Type = "Updated"

\* a watch has delivered an update as Created and a later one as Destroyed
C16_Witness ==
    \E ch \in Chans :
        LET got == LogEvents(watch[ch])
        IN  /\ Len(got) = 2
            /\ got[1].Type = "Created" /\ got[2].Type = "Destroyed"
            /\ \A i \in 1..2 :
                 \E k \in DOMAIN events :
                     /\ events[k].event_type = EventUpdated
                     /\ encodeBookmark(events[k].event_id) = got[i].Bookmark

\* the resources of the kind of a watch as the log leaves them at its
\* snapshot: of every identity the last row up to the snapshot, unless a delete
AtSnapshot(w) ==
    LET rowsOf(id) == SelectSeq(events, LAMBDA e :
                          /\ e.event_id <= w.start
                          /\ e.ns = w.scope.ns /\ e.typ = w.scope.typ /\ e.id = id)
        live == {id \in Range(IdOrder) :
                    /\ rowsOf(id) # <<>>
                    /\ rowsOf(id)[Len(rowsOf(id))].event_type # EventDeleted}
    IN  {UnmarshalResource(rowsOf(id)[Len(rowsOf(id))].spec_after) : id \in live}

\* everything a watch has sent or is about to send: the messages, and
\* their events one after the other
Messages(w) == w.out \o w.queue
Sending(w) == Concat(Messages(w))

\* a watch with BootstrapContents sends one Created event for each resource
\* of a set, then the Bootstrapped sentinel with the bookmark of the
\* snapshot, then only events of the log; an aggregated one sends the
\* Created events and the sentinel as one message
BootstrapDelivers(w, contents) ==
    LET all == Sending(w)
        marks == {i \in DOMAIN all : all[i].Type = "Bootstrapped"}
    IN  /\ Cardinality(marks) = 1
        /\ \A b \in marks :
             /\ b = Cardinality(contents) + 1
             /\ {all[i].Resource : i \in 1..(b - 1)} = contents
             /\ \A i \in 1..(b - 1) : all[i].Type = "Created"
             /\ all[b].Bookmark = encodeBookmark(w.start)
             /\ \A i \in (b + 1)..Len(all) :
                  /\ all[i].Type \in {"Created", "Updated", "Destroyed"}
                  /\ all[i].Bookmark # NULL
                  /\ decodeBookmark(all[i].Bookmark).id > w.start
             /\ IF IsAggregated(w) THEN Len(Messages(w)[1]) = b
                ELSE \A i \in DOMAIN Messages(w) : Len(Messages(w)[i]) = 1

Bootstrapping(w) == ~IsPoint(w) /\ w.opts.BootstrapContents /\ w.pc \in {"send", "wait", "query"}

\* C17: with BootstrapContents a kind watch first delivers one Created
\* event for each resource of the kind that matches the predicate at the
\* snapshot, then a Bootstrapped sentinel whose bookmark is the greatest
\* event id of the snapshot, and only then events of the log; aggregated,
\* the Created events and the sentinel are one message, the sentinel last.
C17_BootstrapContents ==
    \A ch \in Chans :
        LET w == watch[ch]
        IN  Bootstrapping(w) =>
              BootstrapDelivers(w, {md \in AtSnapshot(w) : Satisfies(w, md)})

\* the stored labels column of a resource
LabelsColumn(md) ==
    IF md.ver = 1 THEN MarshalLabelsCreate(md) ELSE MarshalLabelsUpdate(md)

\* what the bootstrap does deliver: the matching resources that also pass
\* the compiled label condition of the snapshot query
BootstrapOfCompiledQuery ==
    \A ch \in Chans :
        LET w == watch[ch]
        IN  Bootstrapping(w) =>
              BootstrapDelivers(w,
                  {md \in AtSnapshot(w) :
                      /\ Satisfies(w, md)
                      /\ SqlLabelsHold(CompileLabelQueries(w.opts.LabelQueries),
                                       LabelsColumn(md))})

\* a bootstrap of two resources has been sent, and a log event after it
BootstrapSeen ==
    \E ch \in Chans :
        LET w == watch[ch]
        IN  /\ Bootstrapping(w)
            /\ w.queue = <<>>
            /\ Len(Concat(w.out)) = 4
            /\ Concat(w.out)[3].Type = "Bootstrapped"

(***************************************************************************)
(* Properties of streaming errors.                                         *)
(***************************************************************************)
\* message i of a watch carries an Errored event
IsErrored(w, i) == \E e \in Range(w.out[i]) : e.Type = "Errored"

\* an Errored event is the last thing on the channel of a watch: the
\* thread has returned and the subscription is gone
ErrorIsFinal(ch) ==
    LET w == watch[ch]
    IN  \A i \in DOMAIN w.out :
            IsErrored(w, i) =>
              /\ i = Len(w.out)
              /\ w.pc = "returned"
              /\ w.queue = <<>>
              /\ ~Subscribed(ch)

\* C20: a streaming error is terminal for every kind of watch: the Errored
\* event is the final event of the channel, the thread exits and its
\* subscription is removed.
C20_StreamingErrorTerminal == \A ch \in Chans : ErrorIsFinal(ch)

\* what holds: the error is terminal for WatchKind and WatchKindAggregated
KindErrorIsFinal == \A ch \in Chans : ~IsPoint(watch[ch]) => ErrorIsFinal(ch)

\* a kind watch has ended on an error after it had delivered log events
KindErrorSeen ==
    \E ch \in Chans :
        /\ ~IsPoint(watch[ch])
        /\ Len(watch[ch].out) >= 2
        /\ IsErrored(watch[ch], Len(watch[ch].out))

\* a point watch has delivered events after an Errored event
PointErrorPassed ==
    \E ch \in Chans :
        /\ IsPoint(watch[ch])
        /\ \E i \in DOMAIN watch[ch].out : IsErrored(watch[ch], i) /\ i < Len(watch[ch].out)

(***************************************************************************)
(* Properties of cancellation.                                             *)
(***************************************************************************)
\* the thread of a watch runs
Running(w) == w.pc \in {"send", "wait", "query"}

\* C21: once the context of a watch is cancelled its thread ends up having
\* returned with its subscription removed, wherever the thread was (asleep,
\* about to take a connection, or sending); once every watch is cancelled
\* the notifier ends up holding no subscription, for good.
C21_CancelledWatchExits ==
    /\ \A ch \in Chans :
         (watch[ch].cancelled /\ Running(watch[ch]))
            ~> (watch[ch].pc = "returned" /\ ~Subscribed(ch))
    /\ (\A ch \in Chans : watch[ch].cancelled) ~> [](Empty(subs))

\* a watch cancelled while a send was under way has returned, after it had
\* delivered log events, and the notifier is empty
C21_Witness ==
    \E ch \in Chans :
        /\ watch[ch].cancelled
        /\ watch[ch].pc = "returned"
        /\ Len(LogEvents(watch[ch])) >= 1
        /\ Empty(subs)

(***************************************************************************)
(* Properties of watch options.                                            *)
(***************************************************************************)
\* the call of a watch returns in this step
SetupReturns(ch) == watch[ch].pc = "setup" /\ watch'[ch].pc # "setup"

\* a call with a bookmark that gets as far as the validation of the bookmark
ValidatesBookmark(w) ==
    /\ ~w.cancelled
    /\ w.opts.StartFromBookmark # NULL
    /\ w.opts.TailEvents = 0
    /\ IsPoint(w) \/ ~w.opts.BootstrapContents

\* C22: a bookmark that is not exactly 8 bytes long fails the call with
\* invalid-bookmark, and so does one whose event id is not in the event
\* log; one whose event is in the log is accepted, the watch starts at
\* that id with a wakeup pending, and delivers the rows above it without
\* waiting for a write.
C22_BookmarkValidated ==
    /\ [][\A ch \in Chans :
            (SetupReturns(ch) /\ ValidatesBookmark(watch[ch])) =>
               LET b == watch[ch].opts.StartFromBookmark[1]
                   w == watch'[ch]
               IN  IF Len(b) # 8 \/ \A i \in DOMAIN events : events[i].event_id # BigEndianValue(b)
                   THEN w.pc = "failed" /\ w.err = ErrInvalidWatchBookmark
                   ELSE /\ Running(w)
                        /\ w.eventID = BigEndianValue(b)
                        /\ wake'[ch] = 1]_vars
    /\ [](\A ch \in Chans :
            LET w == watch[ch]
            IN  (w.opts.StartFromBookmark # NULL /\ Drained(ch) /\ ~w.cancelled) =>
                    Len(LogEvents(w)) = Len(ScopeJournal(w, w.start)))

\* a watch resumed from a bookmark has delivered rows and sleeps unwoken
C22_Witness ==
    \E ch \in Chans :
        /\ watch[ch].opts.StartFromBookmark # NULL
        /\ Drained(ch)
        /\ ~watch[ch].cancelled
        /\ Len(LogEvents(watch[ch])) >= 2

\* the options no watch supports
Unsupported(kind, opts) ==
    \/ opts.TailEvents > 0
    \/ kind # "Watch" /\ opts.StartFromBookmark # NULL /\ opts.BootstrapContents

\* the call of a watch at its snapshot
SetupOf(kind, scope, opts) ==
    LET w == [WatchNone EXCEPT !.pc = "setup", !.kind = kind, !.scope = scope, !.opts = opts]
    IN  IF IsPoint(w) THEN WatchSetup(w, DB(resources, events))
        ELSE watchKindSetup(w, DB(resources, events))

\* C23: a watch call with TailEvents, on any of the three entry points, or
\* a kind watch call with StartFromBookmark and BootstrapContents, fails
\* with unsupported, whatever the bookmark and the other options, and
\* nothing is sent: no thread is started and nothing is queued.
C23_UnsupportedOptions ==
    /\ \A kind \in {"Watch", "WatchKind", "WatchKindAggregated"},
          opts \in {[NoWatchOptions EXCEPT !.TailEvents = 1],
                    [NoWatchOptions EXCEPT !.TailEvents = 1, !.StartFromBookmark = <<<<1>>>>],
                    [NoWatchOptions EXCEPT !.StartFromBookmark = <<encodeBookmark(1)>>,
                                           !.BootstrapContents = TRUE],
                    [NoWatchOptions EXCEPT !.StartFromBookmark = <<<<1>>>>,
                                           !.BootstrapContents = TRUE]} :
         LET s == SetupOf(kind, IF kind = "Watch" THEN PA ELSE K1, opts)
         IN  Unsupported(kind, opts) =>
               /\ s.pc = "failed" /\ s.err = ErrUnsupported
               /\ s.queue = <<>> /\ s.out = <<>>
    /\ \A ch \in Chans :
         (watch[ch].pc = "failed" /\ watch[ch].err = ErrUnsupported) =>
            /\ Unsupported(watch[ch].kind, watch[ch].opts)
            /\ watch[ch].out = <<>> /\ watch[ch].queue = <<>>
            /\ ~Subscribed(ch)

\* a kind watch resumed from a bookmark of the log with BootstrapContents
\* has failed
C23_Witness ==
    \E ch \in Chans :
        /\ watch[ch].pc = "failed"
        /\ watch[ch].err = ErrUnsupported
        /\ watch[ch].opts.TailEvents = 0
        /\ ~decodeBookmark(watch[ch].opts.StartFromBookmark[1]).err
        /\ \E i \in DOMAIN events :
              events[i].event_id = decodeBookmark(watch[ch].opts.StartFromBookmark[1]).id

(***************************************************************************)
(* Properties of the notifier.                                             *)
(***************************************************************************)
\* every racer has returned from its call
RacersIdle == \A c \in DOMAIN cl : cl[c].pc = "idle"

\* the drain of a watch returns in this step
Drains(ch) == watch[ch].pc = "query" /\ watch'[ch].pc # "query"

\* C24: with one subscriber of a kind and N successful concurrent writes
\* of that kind, the subscriber takes at most N wakeups, and at least one
\* is taken or pending once the writers have returned; a drain observes
\* every event committed before it, so one drain after the last commit
\* observes all N, and the subscriber that sleeps unwoken has delivered
\* all N.
C24_Coalescing ==
    /\ [](\A ch \in Chans :
            LET w == watch[ch]
            IN  /\ w.wakeups <= Len(journal)
                /\ wake[ch] \in {0, 1}
                /\ (RacersIdle /\ Len(journal) >= 1) => w.wakeups + wake[ch] >= 1
                /\ (RacersIdle /\ w.pc = "wait" /\ wake[ch] = 0) =>
                       /\ Len(LogEvents(w)) = Len(journal)
                       /\ DeliversPrefixOf(w, journal))
    /\ [][\A ch \in Chans :
            Drains(ch) =>
               Len(LogEvents(watch'[ch])) + Len(Concat(watch'[ch].queue)) = Len(journal)]_vars

\* three writes have been delivered on fewer wakeups than writes
C24_Witness ==
    \E ch \in Chans :
        /\ RacersIdle
        /\ watch[ch].pc = "wait" /\ wake[ch] = 0
        /\ Len(journal) = 3
        /\ Len(LogEvents(watch[ch])) = 3
        /\ watch[ch].wakeups < 3

\* the list of a key, empty for a key without entry
ListOf(m, k) == IF k \in DOMAIN m THEN m[k] ELSE <<>>

\* the channels subscribed under a key, and under any key
SubscribersOf(m, k) == Range(ListOf(m, k))
AllSubscribers(m) == UNION {Range(m[k]) : k \in DOMAIN m}

\* client c clones the list of its key, and sends to the clone
Clones(c) == cl[c].pc = "notify" /\ cl'[c].pc = "fanout"
Sends(c) == cl[c].pc = "fanout" /\ cl'[c].pc = "idle"

\* C25: Notify of a key wakes every subscription registered under exactly
\* that key and no other; a fresh subscription has no wakeup pending, and
\* gets one only from a Notify of its key or from its own TriggerNotify.
C25_NotifyByKey ==
    [][/\ \A c \in DOMAIN cl :
            /\ Clones(c) =>
                 Range(cl'[c].snap) = SubscribersOf(subs, KeyOf(PtrOf(cl[c].req.md)))
            /\ Sends(c) =>
                 \A ch \in DOMAIN wake :
                    wake'[ch] = IF ch \in Range(cl[c].snap) THEN 1 ELSE wake[ch]
       /\ \A ch \in DOMAIN wake :
            /\ (ch \notin AllSubscribers(subs) /\ ch \in AllSubscribers(subs')) => wake'[ch] = 0
            /\ (wake[ch] = 0 /\ wake'[ch] = 1) =>
                 \/ \E c \in DOMAIN cl :
                       /\ Sends(c) /\ ch \in Range(cl[c].snap)
                       /\ ch \in AllSubscribers(subs) =>
                            ch \in SubscribersOf(subs, KeyOf(PtrOf(cl[c].req.md)))
                 \/ /\ UNCHANGED <<cl, subs>>
                    /\ ch \in AllSubscribers(subs)
                    /\ \A other \in DOMAIN wake \ {ch} : wake'[other] = wake[other]]_vars

\* two subscriptions of one key are woken, one of the other key is not
C25_Witness ==
    /\ SubscribersOf(subs, KeyOf(PA)) = {1, 2}
    /\ SubscribersOf(subs, KeyOf(PC)) = {3}
    /\ wake = [ch \in SubChans |-> IF ch = 3 THEN 0 ELSE 1]
    /\ Len(journal) = 1
    /\ \A c \in DOMAIN cl : cl[c].pc = "idle"

\* C26: Unsubscribe removes the calling subscription and no other, and
\* deletes the entry of a key whose list becomes empty; a Notify that
\* starts after it never holds the removed channel while it holds all the
\* others of its key; Empty is true exactly when no subscription is
\* registered.
C26_UnsubscribeExact ==
    /\ [](/\ \A k \in DOMAIN subs : subs[k] # <<>>
          /\ Empty(subs) <=> AllSubscribers(subs) = {}
          /\ \A k \in DOMAIN subs : \A i, j \in DOMAIN subs[k] : subs[k][i] = subs[k][j] => i = j)
    /\ [][/\ \A ch \in DOMAIN wake :
               (ch \in AllSubscribers(subs) /\ ch \notin AllSubscribers(subs')) =>
                  /\ \A k \in DOMAIN subs \cup DOMAIN subs' :
                        ListOf(subs', k) = SelectSeq(ListOf(subs, k), LAMBDA x : x # ch)
                  /\ wake' = wake
       /\ \A c \in DOMAIN cl :
               Clones(c) =>
                  /\ Range(cl'[c].snap) \subseteq AllSubscribers(subs)
                  /\ SubscribersOf(subs, KeyOf(PtrOf(cl[c].req.md))) \subseteq Range(cl'[c].snap)]_vars

\* every subscription has been given up, one of them after it was woken
\* by a write
C26_Witness ==
    /\ Empty(subs)
    /\ Len(journal) >= 1
    /\ \A c \in DOMAIN cl : cl[c].pc = "idle"
    /\ wake[1] = 1 /\ wake[2] = 0

(***************************************************************************)
(* Properties of the results of a compaction pass.                         *)
(***************************************************************************)
\* the rows a completing pass has met: those it leaves and those it deleted
PassRows == Range(events') \cup dropped'

\* the number of rows the pass counted at its start
PassCount == comp'.maxEventID - comp'.minEventID + 1

\* no write has come between the start of the pass and its end, and the ids
\* the pass has met are without gaps
SoloPass ==
    /\ Len(journal') = comp'.since
    /\ Cardinality(PassRows) = PassCount

\* every row the pass has met is older than CompactMinAge
AllOld == \A e \in PassRows : e.event_timestamp < comp'.cutoffTime

\* the pass has deleted the oldest rows down to CompactKeepEvents and says so
KeepsNewest ==
    /\ comp'.info = CompactionInfo(PassCount - Keep, Keep)
    /\ Len(events') = Keep
    /\ Cardinality(dropped') = PassCount - Keep
    /\ \A d \in dropped' : \A i \in DOMAIN events' : d.event_id < events'[i].event_id

\* C27: when every event is older than CompactMinAge and the log holds n
\* events, n > CompactKeepEvents, a pass deletes exactly the n -
\* CompactKeepEvents oldest and reports EventsCompacted = n -
\* CompactKeepEvents and RemainingEvents = CompactKeepEvents.
C27_CompactsToKeep ==
    [][(PassCompletes /\ comp'.res = "ok" /\ SoloPass /\ PassCount > Keep /\ AllOld)
          => KeepsNewest]_vars

\* what holds: the same for a log of at least CompactKeepEvents + 2 events
CompactsToKeepFromTwoAbove ==
    [][(PassCompletes /\ comp'.res = "ok" /\ SoloPass /\ PassCount > Keep + 1 /\ AllOld)
          => KeepsNewest]_vars

\* a pass has cut a log of four old events down to one
ThresholdPassSeen ==
    /\ comp.pc = "idle" /\ comp.res = "ok"
    /\ comp.info = CompactionInfo(3, 1)
    /\ Keep = 1
    /\ Len(events) = 1

\* a compaction pass begins in this step
PassStarts == comp.pc = "idle" /\ comp' # comp

\* a pass that is under way takes a step
PassSteps == comp.pc # "idle" /\ comp' # comp

\* no row the pass counted at its start is older than CompactMinAge
NoneOld == \A i \in DOMAIN events :
              events[i].event_id <= comp.maxEventID
                  => events[i].event_timestamp >= comp.cutoffTime

\* the rows the pass counted at its start
Counted == {i \in DOMAIN events : events[i].event_id <= comp.maxEventID}

\* C28: Compact deletes nothing and reports EventsCompacted = 0 when the log
\* is empty (RemainingEvents = 0), when it holds at most CompactKeepEvents
\* events, and when it holds no event older than CompactMinAge; in the last
\* two cases RemainingEvents is the number of events in the log.
C28_NothingToCompact ==
    [][/\ PassStarts =>
            /\ events' = events /\ dropped' = {}
            /\ Len(events) = 0 =>
                  /\ comp'.pc = "idle" /\ comp'.res = "ok"
                  /\ comp'.info = CompactionInfo(0, 0)
            /\ Len(events) <= Keep =>
                  /\ comp'.pc = "idle" /\ comp'.res = "ok"
                  /\ comp'.info = CompactionInfo(0, Len(events))
            /\ (\A i \in DOMAIN events : events[i].event_timestamp >= now - MinAge) =>
                  /\ comp'.res \in {"none", "ok"}
                  /\ comp'.info = CompactionInfo(0, Len(events))
       /\ (PassSteps /\ dropped = {} /\ NoneOld) =>
            /\ events' = events /\ dropped' = {}
            /\ comp'.res \in {"none", "ok"}
            /\ comp'.info = CompactionInfo(0, Cardinality(Counted))]_vars

\* a pass over a log longer than CompactKeepEvents has probed a row, found
\* it not older than CompactMinAge, and returned with nothing deleted
C28_Witness ==
    /\ comp.pc = "idle" /\ comp.res = "ok" /\ comp.passes > 0
    /\ comp.info = CompactionInfo(0, Len(events))
    /\ Len(events) > Keep + 1
    /\ comp.eventTimestamp >= comp.cutoffTime /\ comp.eventTimestamp > 0
    /\ Len(journal) = comp.since
    /\ dropped = {}

(***************************************************************************)
(* Properties of Close.                                                    *)
(***************************************************************************)
\* Close has returned
Closed == comp.close = "returned"

\* the runner begins a pass in this step
RunnerPassStarts == comp.runner = "start" /\ comp'.runner = "pass"

\* a step of the Close call
CloseSteps == comp'.close # comp.close

StoredMatching(kind, opts) ==
    {UnmarshalResource(resources[p].spec) :
        p \in {q \in DOMAIN resources :
                 /\ q.ns = kind.ns /\ q.typ = kind.typ
                 /\ matches([opts |-> opts], UnmarshalResource(resources[q].spec))}}

\* the compiled condition of a query is true on every stored row on which
\* the predicate of the query is true
Conservative(opts) ==
    \A p \in DOMAIN resources :
        LabelQueriesMatches(opts.LabelQueries, UnmarshalResource(resources[p].spec).labels)
            => SqlLabelsHold(CompileLabelQueries(opts.LabelQueries), resources[p].labels)

\* a List call returns in this step
ListReturns(c) == cl'[c].list # cl[c].list

ListIsExact(l) ==
    /\ Range(l.items) = StoredMatching(l.kind, l.opts)
    /\ Len(l.items) = Cardinality(StoredMatching(l.kind, l.opts))

\* C30: the compiled label filter is conservative: for every label query
\* and every stored label map the compiled condition is true whenever the
\* predicate is, so List(kind, query) returns exactly the stored resources
\* of the kind that satisfy the label and id predicate.
C30_ListExact ==
    [][\A c \in Clients : ListReturns(c) =>
          /\ Conservative(cl'[c].list.opts)
          /\ ListIsExact(cl'[c].list)]_vars

\* the terms whose compiled condition compares the selected value
ComparesInverted(opts) ==
    \E i \in DOMAIN opts.LabelQueries : \E j \in DOMAIN opts.LabelQueries[i] :
        LET t == opts.LabelQueries[i][j]
        IN  t.Invert /\ t.Op \in {"EQUAL", "IN"}

\* what holds: List is exact for one query at most without an inverted
\* EQUAL or IN term
ListExactOtherwise ==
    [][\A c \in Clients : ListReturns(c) =>
          LET l == cl'[c].list
          IN  (Len(l.opts.LabelQueries) <= 1 /\ ~ComparesInverted(l.opts)) =>
                 Conservative(l.opts) /\ ListIsExact(l)]_vars

\* a List under an LT term has returned one of two stored resources
ListSeen ==
    \E c \in Clients :
        LET l == cl[c].list
        IN  /\ l.kind = K1 /\ Len(l.items) = 1
            /\ l.opts.LabelQueries = <<<<LabelTerm("env", "LT", <<"prod">>, FALSE)>>>>

(***************************************************************************)
(* Properties of the caller's metadata.                                    *)
(***************************************************************************)
\* the outcome of a write leaves the caller's metadata as passed in when it
\* fails, and hands back the stored metadata when it succeeds
HandsBack(tx, db, md) ==
    /\ tx.err # Ok => tx.md = md /\ tx.db = db
    /\ tx.err = Ok => Get(tx.db, PtrOf(md)) = [err |-> Ok, res |-> <<tx.md>>]
    /\ tx.err = Ok => tx.md.ver = VersionNext(md.ver)

\* C31: a failing Create or Update leaves the caller's metadata as passed
\* in; a successful one copies back the stored metadata, with the next
\* version and, on Create, the owner of the options; the copy is made after
\* the commit, on the way out.
C31_MetadataOnSuccessOnly ==
    /\ [](\A res \in WriteResources, optOwner \in Owners :
            LET db == DB(resources, events)
                tx == CreateTx(db, res, optOwner, now)
            IN  /\ HandsBack(tx, db, res)
                /\ tx.err = Ok => tx.md.owner = optOwner /\ tx.md.created = now)
    /\ [](\A newResource \in WriteResources, optOwner \in Owners, expectedPhase \in PhaseChoices :
            LET db == DB(resources, events)
                tx == UpdateTx(db, newResource, optOwner, expectedPhase, now)
            IN  /\ HandsBack(tx, db, newResource)
                /\ tx.err = Ok => /\ tx.md.updated = now
                                  /\ tx.md.created = resources[PtrOf(newResource)].created_at)
    /\ [][\A c \in Clients :
            /\ (cl[c].pc = "idle" /\ cl'[c].pc = "idle" /\ cl'[c].res # cl[c].res)
                  => cl'[c].md = cl[c].md
            /\ cl'[c].md # cl[c].md
                  => /\ cl[c].pc = "fanout" /\ cl'[c].pc = "idle" /\ cl'[c].res = Ok
                     /\ cl[c].req.op \in {"Create", "Update"}
                     /\ cl'[c].md = cl[c].new
            /\ (cl[c].pc = "idle" /\ cl'[c].pc = "notify" /\ cl'[c].req.op # "Destroy")
                  => /\ cl'[c].md = cl[c].md
                     /\ Get(DB(resources', events'), PtrOf(cl'[c].req.md))
                           = [err |-> Ok, res |-> <<cl'[c].new>>]]_vars

\* a Create has handed back its stored metadata to the caller, and a later
\* call of the same caller has failed
C31_Witness ==
    \E c \in Clients :
        /\ cl[c].pc = "idle" /\ cl[c].res # Ok /\ cl[c].res # NoResult
        /\ cl[c].md.ver = 1 /\ cl[c].md.owner = "o1" /\ cl[c].md.created = now
        /\ PtrOf(cl[c].md) \in DOMAIN resources
        /\ UnmarshalResource(resources[PtrOf(cl[c].md)].spec) = cl[c].md

(***************************************************************************)
(* Properties of the order of commit and notification.                     *)
(***************************************************************************)
\* the event a committed call of c has written is in the log
CommittedEventOf(c) ==
    \E i \in DOMAIN journal :
        /\ i > cl[c].seen
        /\ journal[i].op = cl[c].req.op
        /\ journal[i].ptr = PtrOf(cl[c].req.md)
        /\ \E k \in DOMAIN events :
              /\ events[k].event_id = journal[i].event_id
              /\ PtrOf(events[k]) = PtrOf(cl[c].req.md)
              /\ events[k].event_type = EventTypeCode(cl[c].req.op)

\* the step in which the transaction of c commits
Commits(c) == cl[c].pc = "begin" /\ cl'[c].pc = "notify"

\* C32: the notifier is woken only after the transaction of the write has
\* committed and only for successful writes: no wakeup is issued before the
\* row and its event are visible, and a Create, Update or Destroy that
\* returns an error issues no Notify.
C32_NotifyAfterCommit ==
    /\ [](\A c \in Racers : cl[c].pc \in {"notify", "fanout"} => CommittedEventOf(c))
    /\ [][\A c \in Racers :
            /\ cl'[c].pc = "notify" => (cl[c].pc = "notify" \/ Commits(c))
            /\ cl'[c].pc = "fanout" => cl[c].pc \in {"notify", "fanout"}
            /\ Commits(c) =>
                 LET p == PtrOf(cl[c].req.md)
                 IN  /\ Len(journal') = Len(journal) + 1
                     /\ Len(events') = Len(events) + 1
                     /\ PtrOf(events'[Len(events')]) = p
                     /\ UNCHANGED <<wake, subs>>
                     /\ IF cl[c].req.op = "Destroy"
                        THEN p \notin DOMAIN resources'
                        ELSE Get(DB(resources', events'), p) = [err |-> Ok, res |-> <<cl'[c].new>>]
            /\ (cl[c].pc = "begin" /\ cl'[c].pc = "idle") =>
                 /\ cl'[c].res # Ok
                 /\ UNCHANGED <<wake, subs, resources, events, journal>>]_vars
    /\ [][\A ch \in Chans :
            wake'[ch] > wake[ch] =>
               \E c \in Racers :
                  /\ cl[c].pc = "fanout" /\ cl'[c].pc = "idle" /\ cl'[c].res = Ok
                  /\ ch \in Range(cl[c].snap)
                  /\ CommittedEventOf(c)]_vars

\* a wakeup of a committed write is pending while another call has
\* returned an error
C32_Witness ==
    /\ \E ch \in Chans : wake[ch] = 1 /\ watch[ch].pc = "wait"
    /\ \E c \in Racers : cl[c].pc = "idle" /\ cl[c].res \notin {Ok, NoResult}
    /\ \E c \in Racers : cl[c].pc = "idle" /\ cl[c].res = Ok

(***************************************************************************)
(* Properties of the sentinels of a kind watch.                            *)
(***************************************************************************)
\* the events delivered before the first one read from the log
InitialPart(w) == Concat(SubSeq(w.out, 1, IF w.initial < Len(w.out) THEN w.initial ELSE Len(w.out)))

\* the sentinels delivered so far, in order
Sentinels(w) == SelectSeq(Concat(w.out), LAMBDA e : e.Type \in {"Bootstrapped", "Noop"})

\* the watch has sent everything it sends before its loop
InitialSent(w) == Len(w.out) >= w.initial /\ w.pc \in {"wait", "query"}

NoopOf(w) == Event("Noop", Tombstone(w.scope), NULL, encodeBookmark(w.start))

\* C33: a kind watch sends a Noop with the current bookmark if
\* BootstrapBookmark is set and the bootstrap of BootstrapContents was not
\* performed; with BootstrapContents the Bootstrapped sentinel is the only
\* sentinel delivered and no Noop follows it; a Noop precedes every event
\* read from the log.
C33_Sentinels ==
    \A ch \in Chans :
        LET w == watch[ch]
        IN  (~IsPoint(w) /\ Streaming(w)) =>
              /\ (w.opts.BootstrapBookmark /\ ~w.opts.BootstrapContents /\ InitialSent(w))
                    => Sentinels(w) = <<NoopOf(w)>> /\ InitialPart(w) = <<NoopOf(w)>>
              /\ w.opts.BootstrapContents
                    => /\ Len(Sentinels(w)) <= 1
                       /\ \A i \in DOMAIN Sentinels(w) : Sentinels(w)[i].Type = "Bootstrapped"
              /\ \A i \in DOMAIN LogEvents(w) : LogEvents(w)[i].Type # "Noop"

\* what the watch does: a Noop is sent whenever BootstrapBookmark is set,
\* after the Bootstrapped sentinel when BootstrapContents is set as well,
\* and before every event read from the log
NoopWheneverAsked ==
    \A ch \in Chans :
        LET w == watch[ch]
            last == InitialPart(w)[Len(InitialPart(w))]
        IN  (~IsPoint(w) /\ Streaming(w) /\ InitialSent(w)) =>
              /\ w.opts.BootstrapBookmark
                    => /\ InitialPart(w) # <<>> /\ last = NoopOf(w)
                       /\ Len(SelectSeq(Concat(w.out), LAMBDA e : e.Type = "Noop")) = 1
              /\ ~w.opts.BootstrapBookmark
                    => SelectSeq(Concat(w.out), LAMBDA e : e.Type = "Noop") = <<>>
              /\ (w.opts.BootstrapBookmark /\ w.opts.BootstrapContents)
                    => [i \in DOMAIN Sentinels(w) |-> Sentinels(w)[i].Type]
                          = <<"Bootstrapped", "Noop">>
              /\ \A i \in DOMAIN LogEvents(w) : LogEvents(w)[i].Type # "Noop"

\* a watch with both options has delivered both sentinels and a log event
BothSentinelsSeen ==
    \E ch \in Chans :
        LET w == watch[ch]
        IN  /\ w.opts.BootstrapBookmark /\ w.opts.BootstrapContents
            /\ Len(Sentinels(w)) = 2 /\ LogEvents(w) # <<>>

(***************************************************************************)
(* Properties of the notify channel.                                       *)
(***************************************************************************)
\* a Notify is about to send to a subscription that has not drained
SendsToFull(c, ch) == cl[c].pc = "fanout" /\ ch \in Range(cl[c].snap) /\ wake[ch] = 1

\* C34: each subscription has at most one pending wakeup, however many
\* Notify and TriggerNotify calls happened since its last drain; Notify and
\* TriggerNotify never block, the wakeup for a subscriber that has not
\* drained being dropped; also while Subscribe and Unsubscribe run.
C34_OnePendingWakeup ==
    /\ [](\A ch \in DOMAIN wake :
            /\ wake[ch] \in {0, 1}
            /\ TrySend(wake, ch) = [wake EXCEPT ![ch] = 1]
            /\ ch \in AllSubscribers(subs) => ENABLED TriggerNotifyCh(ch))
    /\ [](\A c \in DOMAIN cl :
            /\ cl[c].pc = "notify" => ENABLED Notify(c)
            /\ cl[c].pc = "fanout" =>
                 /\ ENABLED NotifyDone(c)
                 /\ NotifyFanout(wake, cl[c].snap)
                      = [ch \in DOMAIN wake |-> IF ch \in Range(cl[c].snap) THEN 1 ELSE wake[ch]])
    /\ [][\A c \in DOMAIN cl : \A ch \in DOMAIN wake :
            (SendsToFull(c, ch) /\ cl'[c].pc = "idle") => wake'[ch] = 1 /\ cl'[c].res = Ok]_vars

\* a Notify is about to send to a subscription whose wakeup is pending,
\* after the subscription of another channel was given up
C34_Witness ==
    /\ \E c \in DOMAIN cl : \E ch \in DOMAIN wake :
          SendsToFull(c, ch) /\ ch \in AllSubscribers(subs)
    /\ \E ch \in DOMAIN wake : ch \notin AllSubscribers(subs) /\ wake[ch] = 1

(***************************************************************************)
(* Properties of the bookmark encoding.                                    *)
(***************************************************************************)
\* the byte string a is lexicographically smaller than b
LexLess(a, b) ==
    \E i \in DOMAIN a :
        /\ i \in DOMAIN b /\ a[i] < b[i]
        /\ \A j \in 1..(i - 1) : a[j] = b[j]

\* the bookmark was made of an event id, which it decodes to
RoundTrips(b) ==
    /\ Len(b) = 8
    /\ \A i \in DOMAIN b : b[i] \in 0..255
    /\ ~decodeBookmark(b).err
    /\ decodeBookmark(b).id \in BookmarkIds
    /\ encodeBookmark(decodeBookmark(b).id) = b

\* C35: the bookmark encoding is an order-preserving bijection on event
\* ids: decoding the encoding of an id gives the id, the encoding is always
\* 8 bytes, and of two non-negative ids the smaller has the
\* lexicographically smaller byte string.
C35_BookmarkBijection ==
    \A ch \in Chans :
        LET w == watch[ch]
        IN  /\ \A b \in w.held : RoundTrips(b)
            /\ w.held # {} => /\ encodeBookmark(w.eventID) \in w.held
                              /\ decodeBookmark(encodeBookmark(w.eventID))
                                    = [err |-> FALSE, id |-> w.eventID]
            /\ \A a, b \in w.held :
                  LET ia == decodeBookmark(a).id
                      ib == decodeBookmark(b).id
                  IN  /\ a # b <=> ia # ib
                      /\ (0 <= ia /\ ia < ib) => LexLess(a, b)
                      /\ (0 <= ia /\ 0 <= ib /\ LexLess(a, b)) => ia < ib
            /\ (w.err = Ok /\ w.opts.StartFromBookmark # <<>>) =>
                  /\ Len(w.opts.StartFromBookmark[1]) = 8
                  /\ encodeBookmark(w.start) = w.opts.StartFromBookmark[1]
            /\ w.err = ErrInvalidWatchBookmark => Len(w.opts.StartFromBookmark[1]) # 8

\* the bookmarks of a negative id and of an id above 2^24 are held, and the
\* second one has been decoded
C35_Witness ==
    \E ch \in Chans :
        LET w == watch[ch]
        IN  /\ w.held = {encodeBookmark(-257), encodeBookmark(16777216)}
            /\ w.err = Ok /\ w.start = 16777216

(***************************************************************************)
(* Properties of the view a consumer builds of a kind watch.               *)
(***************************************************************************)
\* the view after one more event: Created adds, Updated replaces,
\* Destroyed removes; ok is lost by a Created for a resource in the view
\* and by an Updated or Destroyed for one that is not
ApplyEvent(view, ev) ==
    LET same == {r \in view.rs : PtrOf(r) = PtrOf(ev.Resource)}
    IN  CASE ev.Type = "Created" ->
                [rs |-> (view.rs \ same) \cup {ev.Resource}, ok |-> view.ok /\ same = {}]
          [] ev.Type = "Updated" ->
                [rs |-> (view.rs \ same) \cup {ev.Resource}, ok |-> view.ok /\ same # {}]
          [] ev.Type = "Destroyed" ->
                [rs |-> view.rs \ same, ok |-> view.ok /\ same # {}]
          [] OTHER -> view

RECURSIVE ViewAfter(_)
ViewAfter(evs) ==
    IF evs = <<>> THEN [rs |-> {}, ok |-> TRUE]
    ELSE ApplyEvent(ViewAfter(SubSeq(evs, 1, Len(evs) - 1)), evs[Len(evs)])

\* the view of the consumer of a watch: the events delivered so far, applied
\* in order
ViewOf(w) == ViewAfter(Concat(w.out))

\* the stored resources of the kind of a watch that match its predicate
StoredOf(w) ==
    {UnmarshalResource(resources[p].spec) :
        p \in {q \in DOMAIN resources :
                 /\ q.ns = w.scope.ns /\ q.typ = w.scope.typ
                 /\ Satisfies(w, UnmarshalResource(resources[q].spec))}}

ViewReconstructs(ch) ==
    LET w == watch[ch]
    IN  Bootstrapping(w) =>
          /\ ViewOf(w).ok
          /\ (Drained(ch) /\ w.queue = <<>>) => ViewOf(w).rs = StoredOf(w)

\* C36: the consumer of a kind watch with BootstrapContents and a predicate
\* that applies the delivered events in order never gets a Created for a
\* resource in its view nor an Updated or Destroyed for one that is not,
\* and once the events are drained its view is the set of stored resources
\* of the kind that match the predicate.
C36_ViewReconstruction == \A ch \in Chans : ViewReconstructs(ch)

\* the same for the watches whose label queries have no inverted EQUAL or
\* IN term
ViewReconstructsOtherwise ==
    \A ch \in Chans : ~ComparesInverted(watch[ch].opts) => ViewReconstructs(ch)

\* a drained view of one resource, built of a bootstrap and a log event
ViewSeen ==
    \E ch \in Chans :
        LET w == watch[ch]
        IN  /\ Bootstrapping(w) /\ Drained(ch) /\ w.queue = <<>>
            /\ ~ComparesInverted(w.opts)
            /\ w.opts.LabelQueries # <<>>
            /\ Cardinality(ViewOf(w).rs) = 1
            /\ Len(LogEvents(w)) >= 2
            /\ Len(Concat(w.out)) >= 4

(***************************************************************************)
(* Properties of a watch beside the compaction controller.                 *)
(***************************************************************************)
\* a watch has sent an Errored event or its setup has failed
EndedWithError(w) ==
    \/ w.pc = "failed"
    \/ \E i \in DOMAIN w.out : IsErrored(w, i)

\* C37: a running watch, and one resumed from a bookmark that passed the
\* setup check, never silently skips an event while Compact runs beside it:
\* the events it delivers from the log are, in order and without a gap, the
\* committed writes of its scope above its starting id, all of them once
\* it is drained, or the watch ends with an error.
C37_NoSilentSkip ==
    \A ch \in Chans :
        LET w == watch[ch]
        IN  (Streaming(w) /\ ~EndedWithError(w)) =>
              /\ DeliversPrefixOf(w, ScopeJournal(w, w.start))
              /\ (Drained(ch) /\ w.queue = <<>>) =>
                    Len(LogEvents(w)) = Len(ScopeJournal(w, w.start))

\* event id of a delivered event
IdOfEvent(ev) == decodeBookmark(ev.Bookmark).id

\* what holds: the delivered events are committed writes of the scope
\* above the starting id in increasing order of id, and a write that was
\* passed over is one whose row is no longer in the log
SkipsOnlyCompacted ==
    \A ch \in Chans :
        LET w == watch[ch]
            evs == LogEvents(w)
            writes == ScopeJournal(w, w.start)
        IN  Streaming(w) =>
              /\ \A i \in DOMAIN evs : \E k \in DOMAIN writes : StandsFor(evs[i], writes[k])
              /\ \A i, k \in DOMAIN evs : i < k => IdOfEvent(evs[i]) < IdOfEvent(evs[k])
              /\ \A k \in DOMAIN writes :
                    (\E i \in DOMAIN evs : IdOfEvent(evs[i]) > writes[k].event_id) =>
                       \/ \E i \in DOMAIN evs : StandsFor(evs[i], writes[k])
                       \/ \A r \in DOMAIN events : events[r].event_id # writes[k].event_id

\* a resumed watch has delivered the write after a write it passed over
SkipSeen ==
    \E ch \in Chans :
        LET w == watch[ch]
            evs == LogEvents(w)
        IN  /\ Streaming(w) /\ w.resumed /\ ~EndedWithError(w)
            /\ w.opts.StartFromBookmark # <<>>
            /\ w.start = 1
            /\ Len(evs) = 1 /\ IdOfEvent(evs[1]) = 3

(***************************************************************************)
(* Properties of the snapshot of a watch setup.                            *)
(***************************************************************************)
\* a watch that takes its initial state from the tables
TakesSnapshot(w) == w.opts.StartFromBookmark = NULL /\ w.opts.TailEvents = 0

\* the initial state a watch sends is the state the writes up to its
\* starting id leave: the initial event of a point watch, the bootstrap of
\* a kind watch
InitialStateAtStart(w) ==
    LET first == Concat(SubSeq(Messages(w), 1, w.initial))
        created == {i \in DOMAIN first : first[i].Type = "Created"}
    IN  IF IsPoint(w)
        THEN w.initial = 1 /\ first = <<InitialEventOf(w)>>
        ELSE w.opts.BootstrapContents =>
               /\ {first[i].Resource : i \in created} = AtSnapshot(w)
               /\ Cardinality(created) = Cardinality(AtSnapshot(w))
               /\ \A i \in DOMAIN first :
                     first[i].Bookmark # NULL => first[i].Bookmark = encodeBookmark(w.start)

\* the stream of a watch is the writes of its scope above its starting id,
\* each once, without a gap
StreamFromStart(ch) ==
    LET w == watch[ch]
    IN  /\ DeliversPrefixOf(w, ScopeJournal(w, w.start))
        /\ \A i \in DOMAIN LogEvents(w) : IdOfEvent(LogEvents(w)[i]) > w.start
        /\ (Drained(ch) /\ w.queue = <<>> /\ ~w.cancelled) =>
              Len(LogEvents(w)) = Len(ScopeJournal(w, w.start))

\* the step in which the setup of a watch reads its snapshot
Snapshots(ch) == watch[ch].pc = "setup" /\ watch'[ch].pc \in {"send", "wait"}

\* C38: the initial state of a watch and its starting event id are read
\* from one snapshot, taken after the subscription is registered: a write
\* is reflected in the initial state if and only if its event id is at
\* most the starting id, no write is both reflected there and delivered
\* again as an event of the stream, and none falls between the two.
C38_SnapshotConsistency ==
    /\ [](\A ch \in Chans :
            LET w == watch[ch]
            IN  (TakesSnapshot(w) /\ w.pc \in {"send", "wait", "query"}) =>
                    InitialStateAtStart(w) /\ StreamFromStart(ch))
    /\ [][\A ch \in Chans :
            (Snapshots(ch) /\ TakesSnapshot(watch[ch])) =>
               /\ ch \in Range(subs[KeyOf(watch[ch].scope)])
               /\ subs' = subs
               /\ watch'[ch].start = MaxEventID(events)
               /\ events' = events /\ resources' = resources]_vars

\* a snapshot was taken while the writer of event 1 had committed and not
\* yet notified: the write is in the initial state, and its wakeup is to come
C38_Witness ==
    \E ch \in Chans : \E c \in Clients :
        LET w == watch[ch]
        IN  /\ TakesSnapshot(w) /\ w.pc = "send" /\ w.out = <<>>
            /\ w.start = 1
            /\ cl[c].pc = "notify" /\ Len(journal) = 1
            /\ InScope(w, journal[1].ptr)
            /\ Sending(w)[1].Type = "Created"

(***************************************************************************)
(* Properties of what a pass removes.                                      *)
(***************************************************************************)
\* the rows of a log are, in order, the last of the committed writes
IsSuffixOfJournal(evs, jr) ==
    /\ Len(evs) <= Len(jr)
    /\ \A i \in DOMAIN evs :
          LET j == jr[Len(jr) - Len(evs) + i]
          IN  evs[i].event_id = j.event_id /\ PtrOf(evs[i]) = j.ptr

\* a pass that has reached its delete loop returns
DeletingPassReturns == comp.pc = "delete" /\ comp'.pc = "idle"

\* one DELETE statement of the loop runs
DeleteSteps == comp.pc = "delete" /\ comp' # comp

\* C39: a successful pass removes a prefix of the log only: with the one
\* cutoff id of the pass, exactly the events with a smaller id are deleted;
\* the surviving events are a contiguous suffix of the log by event id, and
\* whenever an event is present every later event is present too.
C39_PrefixOnly ==
    /\ [][/\ DeleteSteps =>
               /\ comp'.cutoffEventID = comp.cutoffEventID
               /\ \A d \in dropped' : d.event_id < comp.cutoffEventID
               /\ Range(events') \cup dropped' = Range(events) \cup dropped
               /\ Range(events') \cap (dropped' \ dropped) = {}
          /\ DeletingPassReturns =>
               /\ comp'.res = "ok"
               /\ \A i \in DOMAIN events' : events'[i].event_id >= comp.cutoffEventID
               /\ IsSuffixOfJournal(events', journal')]_vars
    /\ []((comp.pc = "idle" \/ dropped # {}) =>
            /\ IsSuffixOfJournal(events, journal)
            /\ \A i \in 1..(Len(events) - 1) :
                  events[i + 1].event_id = events[i].event_id + 1)

\* a pass has removed the oldest events and returned, one event that it
\* counted and one that was written beside it are in the log
C39_Witness ==
    /\ comp.pc = "idle" /\ comp.res = "ok"
    /\ dropped # {}
    /\ Len(events) = 2
    /\ Len(journal) > comp.since
    /\ events[1].event_id <= comp.maxEventID

(***************************************************************************)
(* Properties of the termination of a pass.                                *)
(***************************************************************************)
\* one iteration of the binary search runs
SearchSteps == comp.pc = "search" /\ comp' # comp

\* the interval of the search
Interval(c) == c.right - c.left

\* the rows of the log below the cutoff of the delete loop
BelowCutoff(evs, c) == {i \in DOMAIN evs : evs[i].event_id < c.cutoffEventID}

\* each iteration of the binary search strictly shrinks its interval, and
\* the loop goes on only with left < right and mid above minEventID; each
\* batch of the delete loop but the last removes at least one event below
\* the fixed cutoff, and the last removes none
PassStepsShrink ==
    /\ SearchSteps =>
          \/ comp'.res = "error" /\ comp'.pc = "idle"
          \/ /\ Interval(comp') < Interval(comp)
             /\ comp.minEventID <= comp'.left /\ comp.left <= comp'.left
             /\ comp'.right <= comp.right
             /\ comp'.pc = "search" =>
                   /\ comp'.left < comp'.right
                   /\ comp'.mid = (comp'.left + comp'.right) \div 2
                   /\ comp'.mid # comp'.minEventID
                   /\ comp'.mid \in comp'.left..(comp'.right - 1)
    /\ DeleteSteps =>
          /\ comp'.cutoffEventID = comp.cutoffEventID
          /\ comp'.pc = "delete" =>
                /\ Len(events') < Len(events)
                /\ \A d \in dropped' \ dropped : d.event_id < comp.cutoffEventID
          /\ comp'.pc = "idle" => events' = events /\ comp'.res = "ok"

\* while the delete loop runs, the events below its cutoff only get fewer
NothingAddedBelowCutoff ==
    (comp.pc = "delete" /\ comp'.pc = "delete") =>
        Cardinality(BelowCutoff(events', comp')) <= Cardinality(BelowCutoff(events, comp))

\* C40: every pass terminates for every log content: each iteration of the
\* binary search over [minEventID, cutoff) strictly shrinks its interval (or
\* the search stops when mid is minEventID), and the delete loop stops after
\* finitely many batches, each batch but the last removing at least one of
\* the events below the fixed cutoff, of which there are never more than
\* when the loop began.
C40_PassTerminates ==
    /\ [][PassStepsShrink /\ NothingAddedBelowCutoff]_vars
    /\ (comp.pc # "idle") ~> (comp.pc = "idle")

\* what holds: the steps of a pass shrink what they work on, and a pass
\* beside which finitely many writes are committed returns
PassReturnsBesideBoundedWrites ==
    /\ [][PassStepsShrink]_vars
    /\ (comp.pc # "idle") ~> (comp.pc = "idle")

\* with one event or more kept, nothing is added below the cutoff of a
\* delete loop
NothingAddedWhenKept ==
    [][Keep >= 1 => NothingAddedBelowCutoff]_vars

\* a delete loop has removed three events, two writes were committed beside
\* it, and an event below its cutoff is in the log once more
FedLoopSeen ==
    /\ comp.pc = "delete"
    /\ Cardinality(dropped) >= 3
    /\ Len(journal) >= comp.since + 2
    /\ BelowCutoff(events, comp) # {}

\* a pass has returned after two iterations of its search and a batch that
\* removed three events
TwoProbesSeen ==
    /\ comp.pc = "idle" /\ comp.res = "ok"
    /\ Cardinality(dropped) = 3
    /\ comp.left > comp.mid /\ comp.mid > comp.minEventID + 1

====
